---- MODULE Spec2Model ----
(***************************************************************************)
(* A model of compgraph: rows (Python dicts), the streaming operators of   *)
(* compgraph/operations.py (Map, Reduce, Join and the joiners) and the     *)
(* graph builder of compgraph/graph.py.                                    *)
(*                                                                         *)
(* A row is an insertion-ordered dict: a sequence of <<name, value>> pairs *)
(* with distinct names.  None is <<>> and a present value x is <<x>>.      *)
(***************************************************************************)
EXTENDS Integers, Sequences, FiniteSets, TLC

\* ------------------------------------------------------------------ bounds

MaxJoinRows == 3

MaxFields == 2

MaxReduceRows == 3

MaxRunRows == 2

MaxOps == 2

MaxGraphs == 3

MaxSortRows == 3

MaxBuffer == 2

MaxAnyRows == 2

MaxTopN == 2

MaxTopRows == 3

MaxTextLen == 3

MaxGraphRuns == 2

MaxStoredRows == 2

\* The key values rows carry.
KeyVals == {1, 2, 3}

\* ------------------------------------------------------------------- state

\* Join.__call__ (operations.py)
VARIABLES
    rows_a,          \* the left input stream (rows)
    rows_b,          \* the right input stream (args[0])
    join_keys,       \* Join.keys
    joiner,          \* the class of Join.joiner
    grouped_rows_a,  \* the groupby over the left input
    grouped_rows_b,  \* the groupby over the right input
    key_a,           \* the key of the current left group, or None
    key_b,
    group_a,         \* the current left group (its target key), or None
    group_b,
    join_pc,         \* where Join.__call__ stands
    join_out,        \* the rows yielded so far
    join_phase       \* for each yielded row, the branch that yielded it

joinVars == <<rows_a, rows_b, join_keys, joiner, grouped_rows_a, grouped_rows_b,
              key_a, key_b, group_a, group_b, join_pc, join_out, join_phase>>

\* Joiner.get_ans (operations.py)
VARIABLES
    ga_row_a,   \* the left row of the pair
    ga_row_b,   \* the right row of the pair
    ga_keys,    \* the join keys
    ans,        \* the dict get_ans builds
    ga_pc       \* the statement get_ans stands before

mergeVars == <<ga_row_a, ga_row_b, ga_keys, ans, ga_pc>>

\* Reduce.__call__ and its reducer (operations.py)
VARIABLES
    red_rows,     \* the input stream
    red_keys,     \* Reduce.keys
    reducer,      \* the class of Reduce.reducer
    red_groupby,  \* the groupby over the input
    red_pc,       \* where Reduce.__call__ stands
    red_calls,    \* per reducer invocation, the rows its group iterator yielded
    red_ans,      \* Count's ans
    num_rows,     \* Count's num_rows
    red_out       \* the rows yielded so far

reduceVars == <<red_rows, red_keys, reducer, red_groupby, red_pc, red_calls,
                red_ans, num_rows, red_out>>

\* Two runs of a graph of Maps over a named source (graph.py, operations.py)
VARIABLES
    heap,      \* the row objects: heap[r] is the dict object r holds now
    born,      \* per row object, the position in data of the row it descends from
    data,      \* the caller's stored collection: references to row objects
    rows0,     \* the rows of the collection as they were stored
    plan,      \* the mappers of graph_from_iter(name).map(m1)...map(mn)
    run_no,    \* which call of g.run(**bindings) is being consumed
    run_pc,    \* "idle" between pulls, "busy" inside one, "done", "error"
    src_pos,   \* rows the source iterator of this run has yielded
    gens,      \* per Map stage, the suspended mapper generator
    at,        \* the stage now executing: 0 the source, Len(plan) + 1 the consumer
    flow,      \* "pull": a request travels upstream; "push": a row travels down
    carry,     \* the row object travelling down
    out,       \* per run, the rows the consumer received, as they were then
    out_refs,  \* per run, the row objects the consumer received
    out_pulls, \* per run and received row, the rows the source had yielded by then
    status     \* per run, how it ended

runVars == <<heap, born, data, rows0, plan, run_no, run_pc, src_pos, gens, at, flow,
             carry, out, out_refs, out_pulls, status>>

\* The builder calls on Graph objects (graph.py)
VARIABLES
    graphs,    \* the Graph objects: graphs[g].op refers to an operation object
    nodes,     \* the operation objects: ReadIterFactory, AddOperation, GraphsJoiner
    ret,       \* the Graph object the last builder call returned
    recorded   \* per Graph object, the plan it held when its builder returned it

buildVars == <<graphs, nodes, ret, recorded>>

\* The external sort stage
VARIABLES
    srt_rows,       \* the input stream
    srt_keys,       \* the key tuple
    buffer_budget,  \* the row budget of the in-memory buffer
    srt_pos,        \* rows read from the input
    buffer,         \* the in-memory buffer
    runs,           \* the spilled runs, in generation order
    run_pos,        \* per run, the rows the merge has taken from it
    srt_pc,         \* "read", "fast", "merge" or "done"
    srt_out         \* the rows yielded so far

sortVars == <<srt_rows, srt_keys, buffer_budget, srt_pos, buffer, runs, run_pos,
              srt_pc, srt_out>>

\* One run of g1.join(joiner, g2, keys), both parents Maps over a named source
\* (graph.py: Graph.run, GraphsJoiner.__call__; operations.py: ReadIterFactory,
\* Map, Join)
VARIABLES
    kwargs,      \* the bindings passed to run: the names that have a factory
    stored,      \* per source name, the caller's collection: row object references
    objs,        \* the row objects: objs[r] is the dict object r holds now
    objs0,       \* the row objects as the caller stored them
    g1,          \* the left parent: its source leaf, its Maps, its groupby in Join
    g2,          \* the right parent
    gj_joiner,   \* the class of Join.joiner
    gj_key_a,    \* key_a of Join.__call__
    gj_key_b,    \* key_b of Join.__call__
    gj_pc,       \* "built", "called", then where Join.__call__ stands
    gj_out,      \* the rows the consumer received, as they were then
    gj_err,      \* the kind of the error the consumer received, or "none"
    gj_calls,    \* per source name, the factory invocations of this run
    gj_run_no    \* which call of run is being consumed

graphRunVars == <<kwargs, stored, objs, objs0, g1, g2, gj_joiner, gj_key_a, gj_key_b,
                  gj_pc, gj_out, gj_err, gj_calls, gj_run_no>>

\* Split.__call__ (operations.py)
VARIABLES
    sp_row,      \* the row Split is called with
    separator,   \* Split.separator, or None
    values,      \* the tokens of row[column]
    sp_i,        \* tokens the for loop has taken
    sp_pc,       \* "call", "loop" or "done"
    sp_out       \* the rows yielded so far

splitVars == <<sp_row, separator, values, sp_i, sp_pc, sp_out>>

\* TopN.__call__ (operations.py)
VARIABLES
    tn_rows,     \* the group the reducer is called with
    tn_n,        \* TopN.n
    tn_heap,     \* the heapq list of (row[column_max], values) tuples
    tn_pos,      \* rows the for loop has taken
    tn_pc,       \* "push", "pop", "yield", "done" or "error"
    tn_i,        \* heap entries the final loop has yielded
    tn_out       \* the rows yielded so far

topVars == <<tn_rows, tn_n, tn_heap, tn_pos, tn_pc, tn_i, tn_out>>

vars == <<joinVars, mergeVars, reduceVars, runVars, buildVars, sortVars,
          graphRunVars, splitVars, topVars>>

\* What the steps of one component leave alone: the state of the others.
JoinFrame == UNCHANGED <<mergeVars, reduceVars, runVars, buildVars, sortVars,
                         graphRunVars, splitVars, topVars>>

MergeFrame == UNCHANGED <<joinVars, reduceVars, runVars, buildVars, sortVars,
                          graphRunVars, splitVars, topVars>>

ReduceFrame == UNCHANGED <<joinVars, mergeVars, runVars, buildVars, sortVars,
                           graphRunVars, splitVars, topVars>>

RunFrame == UNCHANGED <<joinVars, mergeVars, reduceVars, buildVars, sortVars,
                        graphRunVars, splitVars, topVars>>

BuildFrame == UNCHANGED <<joinVars, mergeVars, reduceVars, runVars, sortVars,
                          graphRunVars, splitVars, topVars>>

SortFrame == UNCHANGED <<joinVars, mergeVars, reduceVars, runVars, buildVars,
                         graphRunVars, splitVars, topVars>>

GraphRunFrame == UNCHANGED <<joinVars, mergeVars, reduceVars, runVars, buildVars,
                             sortVars, splitVars, topVars>>

SplitFrame == UNCHANGED <<joinVars, mergeVars, reduceVars, runVars, buildVars,
                          sortVars, graphRunVars, topVars>>

TopFrame == UNCHANGED <<joinVars, mergeVars, reduceVars, runVars, buildVars,
                        sortVars, graphRunVars, splitVars>>

\* ------------------------------------------------------------ Python dicts

None == <<>>

Some(x) == <<x>>

DictNames(d) == {d[i][1] : i \in 1..Len(d)}

DictHas(d, n) == n \in DictNames(d)

DictGet(d, n) == d[CHOOSE i \in 1..Len(d) : d[i][1] = n][2]

\* d[n] = v: an existing name keeps its position, a new one goes last.
DictSet(d, n, v) ==
    IF DictHas(d, n)
    THEN [i \in 1..Len(d) |-> IF d[i][1] = n THEN <<n, v>> ELSE d[i]]
    ELSE Append(d, <<n, v>>)

\* del d[n]
DictDel(d, n) == SelectSeq(d, LAMBDA it : it[1] # n)

RECURSIVE DictUpdate(_, _)
\* d.update(items): the items are set in order, a later one overwriting.
DictUpdate(d, items) ==
    IF items = <<>> THEN d
    ELSE DictUpdate(DictSet(d, Head(items)[1], Head(items)[2]), Tail(items))

\* Python's dict equality ignores the insertion order.
AsMap(d) == [n \in DictNames(d) |-> DictGet(d, n)]

\* ------------------------------------------------------------ key tuples

\* [row[key] for key in self.keys]
KeyOf(row, keys) == [i \in 1..Len(keys) |-> DictGet(row, keys[i])]

RECURSIVE ListLess(_, _)
\* Python's list < list: lexicographic.
ListLess(x, y) ==
    IF y = <<>> THEN FALSE
    ELSE IF x = <<>> THEN TRUE
    ELSE IF Head(x) # Head(y) THEN Head(x) < Head(y)
    ELSE ListLess(Tail(x), Tail(y))

\* Python's None as a field value: among the integers that model the field
\* values, the one that equals only itself and orders with no value.
NoneVal == 0 - 100

\* a < b on two field values: "lt", "ge", or "error" where Python raises
\* TypeError ('<' not supported between instances of 'NoneType' and 'int').
ValueCmp(a, b) ==
    IF a = NoneVal \/ b = NoneVal THEN "error"
    ELSE IF a < b THEN "lt" ELSE "ge"

RECURSIVE ListCmp(_, _)
\* Python's list < list with its failure: the first position where the lists
\* differ decides, by < on the two elements.
ListCmp(x, y) ==
    IF y = <<>> THEN "ge"
    ELSE IF x = <<>> THEN "lt"
    ELSE IF Head(x) # Head(y) THEN ValueCmp(Head(x), Head(y))
    ELSE ListCmp(Tail(x), Tail(y))

\* ----------------------------------------------------- itertools.groupby

\* groupby(rows, key=...): nothing is pulled yet.
GroupbyNew == [pos |-> 0, tgtkey |-> None, currkey |-> None, hasvalue |-> FALSE]

\* One pull from the underlying iterator: ok is FALSE on StopIteration.
GroupbyStep(gb, rows, keys) ==
    IF gb.pos >= Len(rows)
    THEN [gb |-> gb, ok |-> FALSE]
    ELSE [gb |-> [gb EXCEPT !.pos = gb.pos + 1,
                            !.currkey = Some(KeyOf(rows[gb.pos + 1], keys)),
                            !.hasvalue = TRUE],
          ok |-> TRUE]

RECURSIVE GroupbySkip(_, _, _)
\* The loop of groupby.__next__: pull until the key differs from tgtkey.
GroupbySkip(gb, rows, keys) ==
    IF gb.currkey # None /\ (gb.tgtkey = None \/ gb.tgtkey # gb.currkey)
    THEN [gb |-> gb, ok |-> TRUE]
    ELSE LET s == GroupbyStep(gb, rows, keys)
         IN  IF s.ok THEN GroupbySkip(s.gb, rows, keys) ELSE [gb |-> gb, ok |-> FALSE]

\* next(groupby, (None, None)): the key of the next group, or None.
GroupbyNext(gb, rows, keys) ==
    LET s == GroupbySkip(gb, rows, keys)
    IN  IF s.ok
        THEN [gb |-> [s.gb EXCEPT !.tgtkey = s.gb.currkey], key |-> s.gb.currkey]
        ELSE [gb |-> s.gb, key |-> None]

\* next(group): the next row of the current group, or ok = FALSE at its end.
GrouperNext(gb, rows, keys) ==
    LET s == IF gb.hasvalue THEN [gb |-> gb, ok |-> TRUE]
             ELSE GroupbyStep(gb, rows, keys)
    IN  IF ~s.ok \/ s.gb.currkey # s.gb.tgtkey
        THEN [gb |-> s.gb, ok |-> FALSE, row |-> <<>>]
        ELSE [gb |-> [s.gb EXCEPT !.hasvalue = FALSE], ok |-> TRUE,
              row |-> rows[s.gb.pos]]

RECURSIVE GrouperList(_, _, _)
\* list(group): the rest of the current group.
GrouperList(gb, rows, keys) ==
    LET s == GrouperNext(gb, rows, keys)
    IN  IF ~s.ok THEN [gb |-> s.gb, list |-> <<>>]
        ELSE LET r == GrouperList(s.gb, rows, keys)
             IN  [gb |-> r.gb, list |-> <<s.row>> \o r.list]

\* ------------------------------------------------------------------ joiners

Range(s) == {s[i] : i \in 1..Len(s)}

\* Joiner.__init__: the default suffixes.
suffix_a == "_1"

suffix_b == "_2"

\* {key + suffix if key in other else key: value
\*      for key, value in row.items() if key not in keys}
SuffixedItems(row, other, keys, suffix) ==
    LET kept == SelectSeq(row, LAMBDA it : it[1] \notin Range(keys))
    IN  DictUpdate(<<>>, [i \in 1..Len(kept) |->
            <<IF DictHas(other, kept[i][1]) THEN kept[i][1] \o suffix ELSE kept[i][1],
              kept[i][2]>>])

\* {key: row_a[key] for key in keys}
KeyItems(row_a, keys) ==
    DictUpdate(<<>>, [i \in 1..Len(keys) |-> <<keys[i], DictGet(row_a, keys[i])>>])

\* Joiner.get_ans: the merged row of a matched pair.
get_ans(row_a, row_b, keys) ==
    LET ans0 == KeyItems(row_a, keys)
        ans1 == DictUpdate(ans0, SuffixedItems(row_a, row_b, keys, suffix_a))
    IN  DictUpdate(ans1, SuffixedItems(row_b, row_a, keys, suffix_b))

RECURSIVE Flatten(_)
Flatten(ss) == IF ss = <<>> THEN <<>> ELSE Head(ss) \o Flatten(Tail(ss))

\* for row_a in rows_a: for row_b in list_rows_b: yield get_ans(row_a, row_b, keys)
ProductAB(list_a, list_b, keys) ==
    Flatten([i \in 1..Len(list_a) |->
        [j \in 1..Len(list_b) |-> get_ans(list_a[i], list_b[j], keys)]])

\* for row_b in rows_b: for row_a in list_rows_a: yield get_ans(row_a, row_b, keys)
ProductBA(list_a, list_b, keys) ==
    Flatten([j \in 1..Len(list_b) |->
        [i \in 1..Len(list_a) |-> get_ans(list_a[i], list_b[j], keys)]])

\* An inner joiner that pairs the rows of the two groups by position.
InnerJoinerZip(keys, list_a, list_b) ==
    [i \in 1..(IF Len(list_a) < Len(list_b) THEN Len(list_a) ELSE Len(list_b)) |->
        get_ans(list_a[i], list_b[i], keys)]

\* InnerJoiner.__call__
InnerJoiner(keys, list_a, list_b) == ProductAB(list_a, list_b, keys)

\* An outer joiner without the branch for an empty left group.
OuterJoinerNoRight(keys, list_a, list_b) ==
    IF Len(list_b) = 0 THEN list_a ELSE ProductAB(list_a, list_b, keys)

\* OuterJoiner.__call__
OuterJoiner(keys, list_a, list_b) ==
    IF Len(list_b) = 0 THEN list_a
    ELSE IF Len(list_a) = 0 THEN list_b
    ELSE ProductAB(list_a, list_b, keys)

\* LeftJoiner.__call__
LeftJoiner(keys, list_a, list_b) ==
    IF Len(list_b) = 0 THEN list_a ELSE ProductAB(list_a, list_b, keys)

\* RightJoiner.__call__
RightJoiner(keys, list_a, list_b) ==
    IF Len(list_a) = 0 THEN list_b ELSE ProductBA(list_a, list_b, keys)

JoinerKinds == {"InnerJoiner", "OuterJoiner", "LeftJoiner", "RightJoiner"}

\* self.joiner(keys, rows_a, rows_b): every joiner reads both iterables to the end.
JoinerCall(kind, keys, list_a, list_b) ==
    CASE kind = "InnerJoiner" -> InnerJoiner(keys, list_a, list_b)
      [] kind = "OuterJoiner" -> OuterJoiner(keys, list_a, list_b)
      [] kind = "LeftJoiner"  -> LeftJoiner(keys, list_a, list_b)
      [] kind = "RightJoiner" -> RightJoiner(keys, list_a, list_b)

\* A test that lets only the outer joiner see a left group alone.
AdmitsLeftOuterOnly(kind) == kind = "OuterJoiner"

\* isinstance(self.joiner, LeftJoiner | OuterJoiner)
AdmitsLeft(kind) == kind \in {"LeftJoiner", "OuterJoiner"}

\* isinstance(self.joiner, RightJoiner | OuterJoiner)
AdmitsRight(kind) == kind \in {"RightJoiner", "OuterJoiner"}

\* -------------------------------------------------------------- Join.__call__

JoinOff ==
    /\ rows_a = <<>> /\ rows_b = <<>> /\ join_keys = <<>> /\ joiner = "InnerJoiner"
    /\ grouped_rows_a = GroupbyNew /\ grouped_rows_b = GroupbyNew
    /\ key_a = None /\ key_b = None /\ group_a = None /\ group_b = None
    /\ join_pc = "off" /\ join_out = <<>> /\ join_phase = <<>>

\* (key, group) = next(grouped_rows, (None, None))
NextGroup(gb, rows, keys) ==
    LET n == GroupbyNext(gb, rows, keys)
    IN  [gb |-> n.gb, key |-> n.key, group |-> n.key]

Emit(rows, tag) ==
    /\ join_out' = join_out \o rows
    /\ join_phase' = join_phase \o [i \in 1..Len(rows) |-> tag]

\* Lines 138-142: the two groupbys and the first group of each side.
JoinStart ==
    /\ join_pc = "start"
    /\ LET na == NextGroup(GroupbyNew, rows_a, join_keys)
           nb == NextGroup(GroupbyNew, rows_b, join_keys)
       IN  /\ grouped_rows_a' = na.gb /\ key_a' = na.key /\ group_a' = na.group
           /\ grouped_rows_b' = nb.gb /\ key_b' = nb.key /\ group_b' = nb.group
    /\ join_pc' = "merge"
    /\ UNCHANGED <<rows_a, rows_b, join_keys, joiner, join_out, join_phase>>
    /\ JoinFrame

\* The condition of the while loop of line 144.
Merging == key_a # None /\ key_b # None /\ group_a # None /\ group_b # None

\* Lines 145-149: equal keys, the joiner gets both groups, both sides advance.
JoinEqual ==
    /\ join_pc = "merge" /\ Merging
    /\ key_a = key_b
    /\ LET la == GrouperList(grouped_rows_a, rows_a, join_keys)
           lb == GrouperList(grouped_rows_b, rows_b, join_keys)
           na == NextGroup(la.gb, rows_a, join_keys)
           nb == NextGroup(lb.gb, rows_b, join_keys)
       IN  /\ Emit(JoinerCall(joiner, join_keys, la.list, lb.list), "equal")
           /\ grouped_rows_a' = na.gb /\ key_a' = na.key /\ group_a' = na.group
           /\ grouped_rows_b' = nb.gb /\ key_b' = nb.key /\ group_b' = nb.group
    /\ UNCHANGED <<rows_a, rows_b, join_keys, joiner, join_pc>>
    /\ JoinFrame

\* The left group alone goes to the joiner when the strategy admits it; the
\* left side advances (lines 152-155 and 164-167).
LeftAlone(tag) ==
    /\ IF AdmitsLeft(joiner)
       THEN LET la == GrouperList(grouped_rows_a, rows_a, join_keys)
                na == NextGroup(la.gb, rows_a, join_keys)
            IN  /\ Emit(JoinerCall(joiner, join_keys, la.list, <<>>), tag)
                /\ grouped_rows_a' = na.gb /\ key_a' = na.key /\ group_a' = na.group
       ELSE LET na == NextGroup(grouped_rows_a, rows_a, join_keys)
            IN  /\ Emit(<<>>, tag)
                /\ grouped_rows_a' = na.gb /\ key_a' = na.key /\ group_a' = na.group
    /\ UNCHANGED <<grouped_rows_b, key_b, group_b>>

\* The mirror image (lines 158-161 and 170-173).
RightAlone(tag) ==
    /\ IF AdmitsRight(joiner)
       THEN LET lb == GrouperList(grouped_rows_b, rows_b, join_keys)
                nb == NextGroup(lb.gb, rows_b, join_keys)
            IN  /\ Emit(JoinerCall(joiner, join_keys, <<>>, lb.list), tag)
                /\ grouped_rows_b' = nb.gb /\ key_b' = nb.key /\ group_b' = nb.group
       ELSE LET nb == NextGroup(grouped_rows_b, rows_b, join_keys)
            IN  /\ Emit(<<>>, tag)
                /\ grouped_rows_b' = nb.gb /\ key_b' = nb.key /\ group_b' = nb.group
    /\ UNCHANGED <<grouped_rows_a, key_a, group_a>>

\* Lines 151-155: key_a < key_b.
JoinLess ==
    /\ join_pc = "merge" /\ Merging
    /\ key_a # key_b /\ ListCmp(key_a[1], key_b[1]) # "error"
    /\ ListLess(key_a[1], key_b[1])
    /\ LeftAlone("less")
    /\ UNCHANGED <<rows_a, rows_b, join_keys, joiner, join_pc>>
    /\ JoinFrame

\* Lines 157-161: the else branch.
JoinGreater ==
    /\ join_pc = "merge" /\ Merging
    /\ key_a # key_b /\ ListCmp(key_a[1], key_b[1]) # "error"
    /\ ~ListLess(key_a[1], key_b[1])
    /\ RightAlone("greater")
    /\ UNCHANGED <<rows_a, rows_b, join_keys, joiner, join_pc>>
    /\ JoinFrame

\* Line 151: key_a < key_b raises TypeError; the generator of Join.__call__
\* ends with it.
JoinRaise ==
    /\ join_pc = "merge" /\ Merging
    /\ key_a # key_b /\ ListCmp(key_a[1], key_b[1]) = "error"
    /\ join_pc' = "error"
    /\ UNCHANGED <<rows_a, rows_b, join_keys, joiner, grouped_rows_a, grouped_rows_b,
                   key_a, key_b, group_a, group_b, join_out, join_phase>>
    /\ JoinFrame

\* Line 144 fails: on to the drain of the left side.
JoinMergeEnd ==
    /\ join_pc = "merge" /\ ~Merging
    /\ join_pc' = "drain_a"
    /\ UNCHANGED <<rows_a, rows_b, join_keys, joiner, grouped_rows_a, grouped_rows_b,
                   key_a, key_b, group_a, group_b, join_out, join_phase>>
    /\ JoinFrame

\* Lines 163-167.
JoinDrainA ==
    /\ join_pc = "drain_a" /\ group_a # None
    /\ LeftAlone("drain_a")
    /\ UNCHANGED <<rows_a, rows_b, join_keys, joiner, join_pc>>
    /\ JoinFrame

JoinDrainAEnd ==
    /\ join_pc = "drain_a" /\ group_a = None
    /\ join_pc' = "drain_b"
    /\ UNCHANGED <<rows_a, rows_b, join_keys, joiner, grouped_rows_a, grouped_rows_b,
                   key_a, key_b, group_a, group_b, join_out, join_phase>>
    /\ JoinFrame

\* Lines 169-173.
JoinDrainB ==
    /\ join_pc = "drain_b" /\ group_b # None
    /\ RightAlone("drain_b")
    /\ UNCHANGED <<rows_a, rows_b, join_keys, joiner, join_pc>>
    /\ JoinFrame

JoinDrainBEnd ==
    /\ join_pc = "drain_b" /\ group_b = None
    /\ join_pc' = "done"
    /\ UNCHANGED <<rows_a, rows_b, join_keys, joiner, grouped_rows_a, grouped_rows_b,
                   key_a, key_b, group_a, group_b, join_out, join_phase>>
    /\ JoinFrame

\* The inputs: key-sorted streams of at most MaxJoinRows rows; every row
\* carries its key k and a payload v no other row has.
RECURSIVE SeqsUpTo(_, _)
SeqsUpTo(S, n) ==
    IF n = 0 THEN {<<>>}
    ELSE LET shorter == SeqsUpTo(S, n - 1)
         IN  shorter \cup {Append(s, x) : s \in shorter, x \in S}

SortedKeySeqs(n) ==
    {s \in SeqsUpTo(KeyVals, n) : \A i \in 1..Len(s) - 1 : s[i] <= s[i + 1]}

LeftRows(ks) == [i \in 1..Len(ks) |-> <<<<"k", ks[i]>>, <<"v", i>>>>]

RightRows(ks) == [i \in 1..Len(ks) |-> <<<<"k", ks[i]>>, <<"v", 10 + i>>>>]

JoinInit ==
    /\ rows_a \in {LeftRows(ks) : ks \in SortedKeySeqs(MaxJoinRows)}
    /\ rows_b \in {RightRows(ks) : ks \in SortedKeySeqs(MaxJoinRows)}
    /\ join_keys \in {<<"k">>, <<>>}
    /\ joiner \in JoinerKinds
    /\ grouped_rows_a = GroupbyNew /\ grouped_rows_b = GroupbyNew
    /\ key_a = None /\ key_b = None /\ group_a = None /\ group_b = None
    /\ join_pc = "start" /\ join_out = <<>> /\ join_phase = <<>>

JoinNext ==
    \/ JoinStart \/ JoinEqual \/ JoinLess \/ JoinGreater \/ JoinMergeEnd
    \/ JoinDrainA \/ JoinDrainAEnd \/ JoinDrainB \/ JoinDrainBEnd

\* Any rows that carry the key field: in any order, the key an integer or None.
AnyRows(base) ==
    {[i \in 1..Len(ks) |-> <<<<"k", ks[i]>>, <<"v", base + i>>>>] :
        ks \in SeqsUpTo(KeyVals \cup {NoneVal}, MaxAnyRows)}

JoinAnyInit ==
    /\ rows_a \in AnyRows(0)
    /\ rows_b \in AnyRows(10)
    /\ join_keys = <<"k">>
    /\ joiner \in JoinerKinds
    /\ grouped_rows_a = GroupbyNew /\ grouped_rows_b = GroupbyNew
    /\ key_a = None /\ key_b = None /\ group_a = None /\ group_b = None
    /\ join_pc = "start" /\ join_out = <<>> /\ join_phase = <<>>

JoinAnyNext == JoinNext \/ JoinRaise

\* ------------------------------------------------- Joiner.get_ans, by statement

MergeOff ==
    /\ ga_row_a = <<>> /\ ga_row_b = <<>> /\ ga_keys = <<>> /\ ans = <<>> /\ ga_pc = "off"

\* Line 115.
GetAnsKeys ==
    /\ ga_pc = "keys"
    /\ ans' = KeyItems(ga_row_a, ga_keys)
    /\ ga_pc' = "update_a"
    /\ UNCHANGED <<ga_row_a, ga_row_b, ga_keys>>
    /\ MergeFrame

\* Lines 116-117.
GetAnsUpdateA ==
    /\ ga_pc = "update_a"
    /\ ans' = DictUpdate(ans, SuffixedItems(ga_row_a, ga_row_b, ga_keys, suffix_a))
    /\ ga_pc' = "update_b"
    /\ UNCHANGED <<ga_row_a, ga_row_b, ga_keys>>
    /\ MergeFrame

\* Lines 118-120.
GetAnsUpdateB ==
    /\ ga_pc = "update_b"
    /\ ans' = DictUpdate(ans, SuffixedItems(ga_row_b, ga_row_a, ga_keys, suffix_b))
    /\ ga_pc' = "return"
    /\ UNCHANGED <<ga_row_a, ga_row_b, ga_keys>>
    /\ MergeFrame

\* The non-key field names a row may carry: a plain name, the names the two
\* suffixes make of it, and one more.
FieldNames == {"v", "v_1", "v_2", "w"}

\* The sequences of at most n distinct field names.
NameLists(n) ==
    {s \in SeqsUpTo(FieldNames, n) : \A i, j \in 1..Len(s) : i # j => s[i] # s[j]}

\* A row with key k = 1 and the named fields; the field at place i holds base + i,
\* so that no two fields of the pair hold the same value.
RowOf(names, base) ==
    <<<<"k", 1>>>> \o [i \in 1..Len(names) |-> <<names[i], base + i>>]

MergeInit ==
    /\ ga_row_a \in {RowOf(ns, 0) : ns \in NameLists(MaxFields)}
    /\ ga_row_b \in {RowOf(ns, 10) : ns \in NameLists(MaxFields)}
    /\ ga_keys = <<"k">>
    /\ ans = <<>>
    /\ ga_pc = "keys"

MergeNext == GetAnsKeys \/ GetAnsUpdateA \/ GetAnsUpdateB

\* ------------------------------------------------------------ Reduce.__call__

ReduceOff ==
    /\ red_rows = <<>> /\ red_keys = <<>> /\ reducer = "FirstReducer"
    /\ red_groupby = GroupbyNew /\ red_pc = "off" /\ red_calls = <<>>
    /\ red_ans = <<>> /\ num_rows = 0 /\ red_out = <<>>

\* The name of Count's result column.
count_column == "count"

\* The group iterator yields this row to the running invocation.
Handed(row) == [red_calls EXCEPT ![Len(red_calls)] = Append(@, row)]

\* A groupby.__next__ that does not drain the group the reducer left unread.
ReduceNextGroupNoDrain ==
    /\ red_pc = "next"
    /\ LET s == IF red_groupby.hasvalue THEN [gb |-> red_groupby, ok |-> TRUE]
                ELSE GroupbyStep(red_groupby, red_rows, red_keys)
       IN  IF s.ok
           THEN /\ red_groupby' = [s.gb EXCEPT !.tgtkey = s.gb.currkey]
                /\ red_calls' = Append(red_calls, <<>>)
                /\ red_pc' = "reducer"
           ELSE /\ red_groupby' = s.gb
                /\ red_calls' = red_calls
                /\ red_pc' = "done"
    /\ red_ans' = <<>> /\ num_rows' = 0
    /\ UNCHANGED <<red_rows, red_keys, reducer, red_out>>
    /\ ReduceFrame

\* Line 101: the for loop asks groupby for the next group; line 102 calls the
\* reducer with it (a generator: nothing of its body has run yet).
ReduceNextGroup ==
    /\ red_pc = "next"
    /\ LET n == GroupbyNext(red_groupby, red_rows, red_keys)
       IN  /\ red_groupby' = n.gb
           /\ IF n.key = None
              THEN red_calls' = red_calls /\ red_pc' = "done"
              ELSE red_calls' = Append(red_calls, <<>>) /\ red_pc' = "reducer"
    /\ red_ans' = <<>> /\ num_rows' = 0
    /\ UNCHANGED <<red_rows, red_keys, reducer, red_out>>
    /\ ReduceFrame

\* FirstReducer.__call__ (lines 189-192): the first row of the group is
\* yielded, the break ends the generator, and Reduce yields the row (line 103).
FirstReducerCall ==
    /\ red_pc = "reducer" /\ reducer = "FirstReducer"
    /\ LET g == GrouperNext(red_groupby, red_rows, red_keys)
       IN  /\ red_groupby' = g.gb
           /\ red_calls' = IF g.ok THEN Handed(g.row) ELSE red_calls
           /\ red_out' = IF g.ok THEN Append(red_out, g.row) ELSE red_out
    /\ red_pc' = "next"
    /\ UNCHANGED <<red_rows, red_keys, reducer, red_ans, num_rows>>
    /\ ReduceFrame

\* Count.__call__, one turn of its for loop (lines 498-502).
CountRow ==
    /\ red_pc = "reducer" /\ reducer = "Count"
    /\ LET g == GrouperNext(red_groupby, red_rows, red_keys)
       IN  /\ g.ok
           /\ red_groupby' = g.gb
           /\ red_calls' = Handed(g.row)
           /\ red_ans' = IF red_ans = <<>> THEN KeyItems(g.row, red_keys) ELSE red_ans
    /\ num_rows' = num_rows + 1
    /\ UNCHANGED <<red_rows, red_keys, reducer, red_pc, red_out>>
    /\ ReduceFrame

\* Count.__call__ after its loop (lines 503-504): the group is at its end and
\* the one result row is yielded.
CountYield ==
    /\ red_pc = "reducer" /\ reducer = "Count"
    /\ LET g == GrouperNext(red_groupby, red_rows, red_keys)
       IN  /\ ~g.ok
           /\ red_groupby' = g.gb
    /\ red_out' = Append(red_out, DictSet(red_ans, count_column, num_rows))
    /\ red_pc' = "next"
    /\ UNCHANGED <<red_rows, red_keys, reducer, red_calls, red_ans, num_rows>>
    /\ ReduceFrame

\* Any stream of at most MaxReduceRows rows, sorted or not; row i carries its
\* key k and the payload v = i.
ReduceInit ==
    /\ red_rows \in {LeftRows(ks) : ks \in SeqsUpTo(KeyVals, MaxReduceRows)}
    /\ red_keys \in {<<"k">>, <<>>}
    /\ reducer \in {"FirstReducer", "Count"}
    /\ red_groupby = GroupbyNew /\ red_pc = "next" /\ red_calls = <<>>
    /\ red_ans = <<>> /\ num_rows = 0 /\ red_out = <<>>

ReduceNext == ReduceNextGroup \/ FirstReducerCall \/ CountRow \/ CountYield

\* ------------------------------------------------------------------ mappers

\* The mappers of the plans, each with the columns it is configured with.
MapperKinds == {"Filter", "Inverse", "Reveal", "Project"}

column_to_inverse == "v"

column_to_reveal == "c"

project_columns == {"v"}

\* Filter's condition: lambda row: row["v"] > 0
condition(row) == DictGet(row, "v") > 0

\* The mapper raises KeyError on this row.
MapperRaises(kind, row) ==
    CASE kind = "Inverse" -> ~DictHas(row, column_to_inverse)
      [] kind = "Reveal"  -> ~DictHas(row, column_to_reveal)
      [] kind = "Filter"  -> ~DictHas(row, "v")
      [] OTHER            -> FALSE

\* A Reveal that leaves its column in the row.
MapperWritesKeepsColumn(kind, row) ==
    CASE kind = "Inverse" ->
            DictSet(row, column_to_inverse, 0 - DictGet(row, column_to_inverse))
      [] OTHER            -> row

\* The row after the writes the mapper makes into it before its first yield.
MapperWrites(kind, row) ==
    CASE kind = "Inverse" ->
            DictSet(row, column_to_inverse, 0 - DictGet(row, column_to_inverse))
      [] kind = "Reveal"  -> DictDel(row, column_to_reveal)
      [] OTHER            -> row

\* How many rows the mapper yields for this row.
MapperTimes(kind, row) ==
    CASE kind = "Reveal" -> DictGet(row, column_to_reveal)
      [] kind = "Filter" -> IF condition(row) THEN 1 ELSE 0
      [] OTHER           -> 1

\* Project yields a dict of its own; the others yield the row they were given.
MapperYieldsNew(kind) == kind = "Project"

\* {key: value for key, value in row.items() if key in self.columns}
ProjectRow(row) == SelectSeq(row, LAMBDA it : it[1] \in project_columns)

\* list(mapper(row)) for a row nobody else writes to meanwhile.
MapperRows(kind, row) ==
    [i \in 1..MapperTimes(kind, row) |->
        IF MapperYieldsNew(kind) THEN ProjectRow(row) ELSE MapperWrites(kind, row)]

\* ------------------------------------------------- Graph.run over a map chain

RunOff ==
    /\ heap = <<>> /\ born = <<>> /\ data = <<>> /\ rows0 = <<>> /\ plan = <<>>
    /\ run_no = 0 /\ run_pc = "off" /\ src_pos = 0 /\ gens = <<>>
    /\ at = 0 /\ flow = "pull" /\ carry = 0
    /\ out = <<>> /\ out_refs = <<>> /\ out_pulls = <<>> /\ status = <<>>

NoGen == [active |-> FALSE, ref |-> 0, left |-> 0]

Consumer == Len(plan) + 1

\* The consumer asks the run iterator for the next row.
ConsumerPull ==
    /\ run_pc = "idle"
    /\ run_pc' = "busy" /\ at' = Len(plan) /\ flow' = "pull"
    /\ UNCHANGED <<heap, born, data, rows0, plan, run_no, src_pos, gens, carry, out,
                   out_refs, out_pulls, status>>
    /\ RunFrame

\* A source that fetches the row after the one it hands on as well.
SourceYieldAhead ==
    /\ run_pc = "busy" /\ at = 0 /\ flow = "pull"
    /\ src_pos < Len(data)
    /\ src_pos' = IF src_pos + 2 <= Len(data) THEN src_pos + 2 ELSE src_pos + 1
    /\ carry' = data[src_pos + 1]
    /\ at' = 1 /\ flow' = "push"
    /\ UNCHANGED <<heap, born, data, rows0, plan, run_no, run_pc, gens, out, out_refs, out_pulls, status>>
    /\ RunFrame

\* ReadIterFactory.__call__ (lines 55-56): the next row of the bound iterator.
SourceYield ==
    /\ run_pc = "busy" /\ at = 0 /\ flow = "pull"
    /\ src_pos < Len(data)
    /\ src_pos' = src_pos + 1
    /\ carry' = data[src_pos + 1]
    /\ at' = 1 /\ flow' = "push"
    /\ UNCHANGED <<heap, born, data, rows0, plan, run_no, run_pc, gens, out, out_refs, out_pulls, status>>
    /\ RunFrame

\* The bound iterator is exhausted: every generator of the chain returns.
SourceStop ==
    /\ run_pc = "busy" /\ at = 0 /\ flow = "pull"
    /\ src_pos = Len(data)
    /\ run_pc' = "done"
    /\ status' = [status EXCEPT ![run_no] = "done"]
    /\ at' = Consumer
    /\ gens' = [s \in 1..Len(plan) |-> NoGen]
    /\ UNCHANGED <<heap, born, data, rows0, plan, run_no, src_pos, flow, carry, out, out_refs, out_pulls>>
    /\ RunFrame

\* A Map that forwards only the first row of each mapper result.
MapResumeFirstOnly ==
    /\ run_pc = "busy" /\ at \in 1..Len(plan) /\ flow = "pull"
    /\ gens' = [gens EXCEPT ![at] = NoGen]
    /\ at' = at - 1
    /\ UNCHANGED <<heap, born, data, rows0, plan, run_no, run_pc, src_pos, flow, carry,
                   out, out_refs, out_pulls, status>>
    /\ RunFrame

\* Map.__call__ resumed by a pull (lines 78-81): the inner for loop takes the
\* next row of the suspended mapper generator and yields it; when the generator
\* is finished, the outer for loop pulls the next upstream row.
MapResume ==
    /\ run_pc = "busy" /\ at \in 1..Len(plan) /\ flow = "pull"
    /\ IF gens[at].active /\ gens[at].left > 0
       THEN /\ gens' = [gens EXCEPT ![at].left = @ - 1]
            /\ carry' = gens[at].ref
            /\ at' = at + 1 /\ flow' = "push"
       ELSE /\ gens' = [gens EXCEPT ![at] = NoGen]
            /\ at' = at - 1
            /\ UNCHANGED <<flow, carry>>
    /\ UNCHANGED <<heap, born, data, rows0, plan, run_no, run_pc, src_pos, out, out_refs, out_pulls, status>>
    /\ RunFrame

\* Map.__call__ is handed an upstream row (lines 78-81): res = self.mapper(row)
\* and the first next(res) runs the mapper up to its first yield.
MapReceive ==
    /\ run_pc = "busy" /\ at \in 1..Len(plan) /\ flow = "push"
    /\ ~MapperRaises(plan[at], heap[carry])
    /\ LET kind == plan[at]
           row == heap[carry]
           written == MapperWrites(kind, row)
           times == MapperTimes(kind, row)
           fresh == MapperYieldsNew(kind)
           heap1 == [heap EXCEPT ![carry] = written]
           heap2 == IF fresh /\ times > 0 THEN Append(heap1, ProjectRow(row)) ELSE heap1
           ref == IF fresh THEN Len(heap2) ELSE carry
       IN  /\ heap' = heap2
           /\ born' = IF Len(heap2) > Len(heap) THEN Append(born, born[carry]) ELSE born
           /\ IF times > 0
              THEN /\ gens' = [gens EXCEPT ![at] =
                                  [active |-> TRUE, ref |-> ref, left |-> times - 1]]
                   /\ carry' = ref
                   /\ at' = at + 1 /\ flow' = "push"
              ELSE /\ gens' = [gens EXCEPT ![at] = NoGen]
                   /\ at' = at - 1 /\ flow' = "pull"
                   /\ carry' = carry
    /\ UNCHANGED <<data, rows0, plan, run_no, run_pc, src_pos, out, out_refs, out_pulls, status>>
    /\ RunFrame

\* The mapper raises: the error reaches the consumer and the run is over.
MapRaise ==
    /\ run_pc = "busy" /\ at \in 1..Len(plan) /\ flow = "push"
    /\ MapperRaises(plan[at], heap[carry])
    /\ run_pc' = "error"
    /\ status' = [status EXCEPT ![run_no] = "error"]
    /\ at' = Consumer
    /\ gens' = [s \in 1..Len(plan) |-> NoGen]
    /\ UNCHANGED <<heap, born, data, rows0, plan, run_no, src_pos, flow, carry, out, out_refs, out_pulls>>
    /\ RunFrame

\* Graph.run (line 78) yields the row to the consumer.
ConsumerReceive ==
    /\ run_pc = "busy" /\ at = Consumer /\ flow = "push"
    /\ out' = [out EXCEPT ![run_no] = Append(@, heap[carry])]
    /\ out_refs' = [out_refs EXCEPT ![run_no] = Append(@, carry)]
    /\ out_pulls' = [out_pulls EXCEPT ![run_no] = Append(@, src_pos)]
    /\ run_pc' = "idle"
    /\ UNCHANGED <<heap, born, data, rows0, plan, run_no, src_pos, gens, at, flow, carry, status>>
    /\ RunFrame

\* The first run is over; g.run(**bindings) is called again: the factory hands
\* out a fresh iterator over the same stored collection.
RunAgain ==
    /\ run_no = 1 /\ run_pc \in {"done", "error"}
    /\ run_no' = 2 /\ run_pc' = "idle"
    /\ src_pos' = 0
    /\ gens' = [s \in 1..Len(plan) |-> NoGen]
    /\ at' = Consumer /\ flow' = "pull"
    /\ UNCHANGED <<heap, born, data, rows0, plan, carry, out, out_refs, out_pulls, status>>
    /\ RunFrame

\* The rows a caller stores: a value v and a count c.
RunRowVals ==
    { <<<<"v", 1>>, <<"c", 2>>>>, <<<<"v", 2>>, <<"c", 0>>>>, <<<<"v", 3>>, <<"c", 1>>>> }

RunInit ==
    /\ rows0 \in SeqsUpTo(RunRowVals, MaxRunRows)
    /\ heap = rows0
    /\ born = [i \in 1..Len(rows0) |-> i]
    /\ data = [i \in 1..Len(rows0) |-> i]
    /\ plan \in SeqsUpTo(MapperKinds, MaxOps)
    /\ run_no = 1 /\ run_pc = "idle" /\ src_pos = 0
    /\ gens = [s \in 1..Len(plan) |-> NoGen]
    /\ at = Len(plan) + 1 /\ flow = "pull" /\ carry = 0
    /\ out = <<<<>>, <<>>>> /\ out_refs = <<<<>>, <<>>>> /\ out_pulls = <<<<>>, <<>>>>
    /\ status = <<"running", "running">>

RunNext ==
    \/ ConsumerPull \/ SourceYield \/ SourceStop \/ MapResume \/ MapReceive
    \/ MapRaise \/ ConsumerReceive \/ RunAgain

\* ---------------------------------------------------------- the graph builder

BuildOff == graphs = <<>> /\ nodes = <<>> /\ ret = 0 /\ recorded = <<>>

RECURSIVE PlanOfNode(_, _, _)
RECURSIVE PlanOfGraph(_, _, _)
\* What self.op(**kwargs) executes, given the operation objects ns and the
\* Graph objects gs: AddOperation.__call__ runs first over second,
\* GraphsJoiner.__call__ runs the joiner over g1.run and g2.run.
PlanOfNode(ns, gs, n) ==
    CASE ns[n].cls = "ReadIterFactory" -> <<"ReadIterFactory", ns[n].name>>
      [] ns[n].cls = "AddOperation" ->
            <<"AddOperation", ns[n].first, PlanOfNode(ns, gs, ns[n].second)>>
      [] ns[n].cls = "GraphsJoiner" ->
            <<"GraphsJoiner", ns[n].joiner, PlanOfGraph(ns, gs, ns[n].g1),
              PlanOfGraph(ns, gs, ns[n].g2)>>

\* What g.run(**kwargs) executes (graph.py, line 78).
PlanOfGraph(ns, gs, g) == PlanOfNode(ns, gs, gs[g].op)

\* graph = Graph(); graph.op = op; return graph
NewGraph(op) ==
    /\ nodes' = Append(nodes, op)
    /\ graphs' = Append(graphs, [op |-> Len(nodes) + 1])
    /\ ret' = Len(graphs) + 1
    /\ recorded' = Append(recorded, PlanOfGraph(nodes', graphs', Len(graphs) + 1))

SourceNames == {"x", "y"}

\* Graph.graph_from_iter
graph_from_iter ==
    /\ Len(graphs) < MaxGraphs
    /\ \E name \in SourceNames :
          NewGraph([cls |-> "ReadIterFactory", name |-> name])
    /\ BuildFrame

\* A map that extends the receiver's own plan and returns the receiver.
graph_map_in_place ==
    /\ Len(graphs) < MaxGraphs
    /\ \E g \in 1..Len(graphs), mapper \in {"Inverse", "Reveal"} :
          /\ nodes' = Append(nodes, [cls |-> "AddOperation",
                                     first |-> <<"Map", mapper>>,
                                     second |-> graphs[g].op])
          /\ graphs' = [graphs EXCEPT ![g].op = Len(nodes) + 1]
          /\ ret' = g
          /\ recorded' = recorded
    /\ BuildFrame

\* Graph.map
graph_map ==
    /\ Len(graphs) < MaxGraphs
    /\ \E g \in 1..Len(graphs), mapper \in {"Inverse", "Reveal"} :
          NewGraph([cls |-> "AddOperation", first |-> <<"Map", mapper>>,
                    second |-> graphs[g].op])
    /\ BuildFrame

\* Graph.reduce
graph_reduce ==
    /\ Len(graphs) < MaxGraphs
    /\ \E g \in 1..Len(graphs), r \in {"FirstReducer", "Count"} :
          NewGraph([cls |-> "AddOperation", first |-> <<"Reduce", r, <<"k">>>>,
                    second |-> graphs[g].op])
    /\ BuildFrame

\* Graph.sort
graph_sort ==
    /\ Len(graphs) < MaxGraphs
    /\ \E g \in 1..Len(graphs) :
          NewGraph([cls |-> "AddOperation", first |-> <<"ExternalSort", <<"k">>>>,
                    second |-> graphs[g].op])
    /\ BuildFrame

\* Graph.join
graph_join ==
    /\ Len(graphs) < MaxGraphs
    /\ \E g \in 1..Len(graphs), join_graph \in 1..Len(graphs),
          j \in {"InnerJoiner", "LeftJoiner"} :
          NewGraph([cls |-> "GraphsJoiner", joiner |-> <<"Join", j, <<"k">>>>,
                    g1 |-> g, g2 |-> join_graph])
    /\ BuildFrame

BuildInit == graphs = <<>> /\ nodes = <<>> /\ ret = 0 /\ recorded = <<>>

BuildNext == graph_from_iter \/ graph_map \/ graph_reduce \/ graph_sort \/ graph_join

\* ------------------------------------------------------------- external sort

SortOff ==
    /\ srt_rows = <<>> /\ srt_keys = <<>> /\ buffer_budget = 0 /\ srt_pos = 0
    /\ buffer = <<>> /\ runs = <<>> /\ run_pos = <<>> /\ srt_pc = "off" /\ srt_out = <<>>

\* x goes behind every row whose key is not greater than its own.
RECURSIVE InsertStable(_, _, _)
InsertStable(sorted, x, keys) ==
    IF sorted = <<>> THEN <<x>>
    ELSE IF ListLess(KeyOf(x, keys), KeyOf(Head(sorted), keys))
         THEN <<x>> \o sorted
         ELSE <<Head(sorted)>> \o InsertStable(Tail(sorted), x, keys)

RECURSIVE StableSort(_, _)
\* The stable in-memory sort of a buffer by the key.
StableSort(buf, keys) ==
    IF buf = <<>> THEN <<>>
    ELSE InsertStable(StableSort(SubSeq(buf, 1, Len(buf) - 1), keys), buf[Len(buf)], keys)

\* Run generation: a row is read; when the buffer has reached its budget it is
\* sorted and written out as the next run, and the row starts a new buffer.
SortRead ==
    /\ srt_pc = "read" /\ srt_pos < Len(srt_rows)
    /\ srt_pos' = srt_pos + 1
    /\ IF Len(buffer) >= buffer_budget
       THEN /\ runs' = Append(runs, StableSort(buffer, srt_keys))
            /\ run_pos' = Append(run_pos, 0)
            /\ buffer' = <<srt_rows[srt_pos + 1]>>
       ELSE /\ buffer' = Append(buffer, srt_rows[srt_pos + 1])
            /\ UNCHANGED <<runs, run_pos>>
    /\ UNCHANGED <<srt_rows, srt_keys, buffer_budget, srt_pc, srt_out>>
    /\ SortFrame

\* The input is exhausted.  Nothing was spilled: the fast path sorts the buffer
\* in memory.  Otherwise the last partial buffer becomes the last run.
SortInputEnd ==
    /\ srt_pc = "read" /\ srt_pos = Len(srt_rows)
    /\ IF runs = <<>>
       THEN /\ buffer' = StableSort(buffer, srt_keys)
            /\ srt_pc' = "fast"
            /\ UNCHANGED <<runs, run_pos>>
       ELSE /\ runs' = IF buffer = <<>> THEN runs
                       ELSE Append(runs, StableSort(buffer, srt_keys))
            /\ run_pos' = IF buffer = <<>> THEN run_pos ELSE Append(run_pos, 0)
            /\ buffer' = <<>>
            /\ srt_pc' = "merge"
    /\ UNCHANGED <<srt_rows, srt_keys, buffer_budget, srt_pos, srt_out>>
    /\ SortFrame

\* The fast path yields the sorted buffer row by row.
SortFastYield ==
    /\ srt_pc = "fast"
    /\ IF buffer = <<>>
       THEN srt_pc' = "done" /\ UNCHANGED <<buffer, srt_out>>
       ELSE /\ srt_out' = Append(srt_out, Head(buffer))
            /\ buffer' = Tail(buffer)
            /\ srt_pc' = srt_pc
    /\ UNCHANGED <<srt_rows, srt_keys, buffer_budget, srt_pos, runs, run_pos>>
    /\ SortFrame

\* The runs the merge has not used up.
OpenRuns == {r \in 1..Len(runs) : run_pos[r] < Len(runs[r])}

RunHead(r) == runs[r][run_pos[r] + 1]

\* (key, run index) of run r is less than that of run q.
HeadLess(r, q) ==
    LET kr == KeyOf(RunHead(r), srt_keys)
        kq == KeyOf(RunHead(q), srt_keys)
    IN  ListLess(kr, kq) \/ (kr = kq /\ r < q)

\* A queue ordered by the key alone, equal keys popped latest run first.
MergePickLatest ==
    CHOOSE r \in OpenRuns : \A q \in OpenRuns \ {r} :
        LET kr == KeyOf(RunHead(r), srt_keys)
            kq == KeyOf(RunHead(q), srt_keys)
        IN  ListLess(kr, kq) \/ (kr = kq /\ r > q)

\* The top of the priority queue keyed by (key value, run index).
MergePick == CHOOSE r \in OpenRuns : \A q \in OpenRuns \ {r} : HeadLess(r, q)

\* K-way merge: pop the smallest, yield its row, advance that run.
SortMergePop ==
    /\ srt_pc = "merge" /\ OpenRuns # {}
    /\ LET r == MergePick
       IN  /\ srt_out' = Append(srt_out, RunHead(r))
           /\ run_pos' = [run_pos EXCEPT ![r] = @ + 1]
    /\ UNCHANGED <<srt_rows, srt_keys, buffer_budget, srt_pos, buffer, runs, srt_pc>>
    /\ SortFrame

\* The queue is empty.
SortMergeEnd ==
    /\ srt_pc = "merge" /\ OpenRuns = {}
    /\ srt_pc' = "done"
    /\ UNCHANGED <<srt_rows, srt_keys, buffer_budget, srt_pos, buffer, runs, run_pos,
                   srt_out>>
    /\ SortFrame

\* Any stream of at most MaxSortRows rows (row i carries the payload v = i) and
\* any budget of 1 .. MaxBuffer rows.
SortInit ==
    /\ srt_rows \in {LeftRows(ks) : ks \in SeqsUpTo(KeyVals, MaxSortRows)}
    /\ srt_keys = <<"k">>
    /\ buffer_budget \in 1..MaxBuffer
    /\ srt_pos = 0 /\ buffer = <<>> /\ runs = <<>> /\ run_pos = <<>>
    /\ srt_pc = "read" /\ srt_out = <<>>

SortNext == SortRead \/ SortInputEnd \/ SortFastYield \/ SortMergePop \/ SortMergeEnd

\* ------------------------------------------------------------ Split.__call__

\* A str is the sequence of its characters.
Chars == {"a", " ", ","}

\* Split.column
split_column == "text"

SplitOff ==
    /\ sp_row = <<>> /\ separator = None /\ values = <<>>
    /\ sp_i = 0 /\ sp_pc = "off" /\ sp_out = <<>>

RECURSIVE SplitRuns(_, _)
\* The words of s after the word cur that is being read.
SplitRuns(s, cur) ==
    IF s = <<>> THEN (IF cur = <<>> THEN <<>> ELSE <<cur>>)
    ELSE IF Head(s) = " "
    THEN (IF cur = <<>> THEN <<>> ELSE <<cur>>) \o SplitRuns(Tail(s), <<>>)
    ELSE SplitRuns(Tail(s), Append(cur, Head(s)))

\* str.split(): the maximal runs of characters that are not whitespace.
str_split(s) == SplitRuns(s, <<>>)

\* Line 242: values = row[self.column].split()
SplitCall ==
    /\ sp_pc = "call"
    /\ values' = str_split(DictGet(sp_row, split_column))
    /\ sp_i' = 0 /\ sp_pc' = "loop"
    /\ UNCHANGED <<sp_row, separator, sp_out>>
    /\ SplitFrame

\* Lines 243-246: new_row = row.copy(); new_row[self.column] = value; yield new_row
SplitYield ==
    /\ sp_pc = "loop" /\ sp_i < Len(values)
    /\ sp_i' = sp_i + 1
    /\ sp_out' = Append(sp_out, DictSet(sp_row, split_column, values[sp_i + 1]))
    /\ UNCHANGED <<sp_row, separator, values, sp_pc>>
    /\ SplitFrame

\* The for loop of line 243 is over.
SplitReturn ==
    /\ sp_pc = "loop" /\ sp_i = Len(values)
    /\ sp_pc' = "done"
    /\ UNCHANGED <<sp_row, separator, values, sp_i, sp_out>>
    /\ SplitFrame

\* Split(column, separator) called with a row {"id": 1, "text": s}; the
\* separator is None or a string of one character.
SplitInit ==
    /\ \E s \in SeqsUpTo(Chars, MaxTextLen) :
          sp_row = <<<<"id", 1>>, <<split_column, s>>>>
    /\ separator \in {None, <<",">>, <<" ">>}
    /\ values = <<>> /\ sp_i = 0 /\ sp_pc = "call" /\ sp_out = <<>>

SplitNext == SplitCall \/ SplitYield \/ SplitReturn

\* ------------------------------------------------------------- TopN.__call__

\* TopN.column_max
column_max == "v"

TopOff ==
    /\ tn_rows = <<>> /\ tn_n = 0 /\ tn_heap = <<>> /\ tn_pos = 0
    /\ tn_pc = "off" /\ tn_i = 0 /\ tn_out = <<>>

\* The order of the field names (str) that rows carry.
NameOrder == <<"c", "k", "v", "w">>

NameLess(a, b) ==
    \E i, j \in 1..Len(NameOrder) : NameOrder[i] = a /\ NameOrder[j] = b /\ i < j

\* a < b on two (name, value) tuples: the first component that differs decides.
ItemCmp(a, b) ==
    IF a[1] # b[1] THEN (IF NameLess(a[1], b[1]) THEN "lt" ELSE "ge")
    ELSE IF a[2] # b[2] THEN ValueCmp(a[2], b[2])
    ELSE "ge"

RECURSIVE ItemsCmp(_, _)
\* a < b on two lists of (name, value) tuples: the first position that differs
\* decides, else the shorter list is the smaller one.
ItemsCmp(a, b) ==
    IF a = <<>> THEN (IF b = <<>> THEN "ge" ELSE "lt")
    ELSE IF b = <<>> THEN "ge"
    ELSE IF Head(a) # Head(b) THEN ItemCmp(Head(a), Head(b))
    ELSE ItemsCmp(Tail(a), Tail(b))

\* An order on heap entries that is the reverse of the one heapq is given.
EntryCmpReversed(a, b) ==
    IF a = b THEN "ge"
    ELSE LET c == IF a[1] # b[1] THEN ValueCmp(a[1], b[1]) ELSE ItemsCmp(a[2], b[2])
         IN  IF c = "lt" THEN "ge" ELSE IF c = "ge" THEN "lt" ELSE c

\* a < b on two heap entries (row[column_max], values).
EntryCmp(a, b) ==
    IF a[1] # b[1] THEN ValueCmp(a[1], b[1])
    ELSE ItemsCmp(a[2], b[2])

\* The lists of heapq are 0-based: position p is element p + 1 of the sequence.
At(h, p) == h[p + 1]

Put(h, p, x) == [h EXCEPT ![p + 1] = x]

RECURSIVE siftdown(_, _, _, _)
\* heapq._siftdown(heap, startpos, pos) with newitem taken out of heap[pos].
siftdown(h, startpos, pos, newitem) ==
    IF pos > startpos
    THEN LET parentpos == (pos - 1) \div 2
             parent == At(h, parentpos)
             c == EntryCmp(newitem, parent)
         IN  IF c = "error" THEN [heap |-> h, ok |-> FALSE]
             ELSE IF c = "lt" THEN siftdown(Put(h, pos, parent), startpos, parentpos, newitem)
             ELSE [heap |-> Put(h, pos, newitem), ok |-> TRUE]
    ELSE [heap |-> Put(h, pos, newitem), ok |-> TRUE]

\* heapq.heappush(heap, item)
heappush(h, item) ==
    LET h1 == Append(h, item)
    IN  siftdown(h1, 0, Len(h1) - 1, item)

RECURSIVE siftup(_, _, _, _)
\* heapq._siftup(heap, pos) with newitem taken out of heap[pos]: the smaller
\* child moves up until a leaf is reached, then newitem is sifted down.
siftup(h, startpos, pos, newitem) ==
    LET endpos == Len(h)
        childpos == 2 * pos + 1
        rightpos == childpos + 1
        c == EntryCmp(At(h, childpos), At(h, rightpos))
        child == IF rightpos < endpos /\ c # "lt" THEN rightpos ELSE childpos
    IN  IF childpos < endpos
        THEN IF rightpos < endpos /\ c = "error" THEN [heap |-> h, ok |-> FALSE]
             ELSE siftup(Put(h, pos, At(h, child)), startpos, child, newitem)
        ELSE siftdown(h, startpos, pos, newitem)

\* heapq.heappop(heap), for what it leaves in the heap.
heappop(h) ==
    LET lastelt == h[Len(h)]
        h1 == SubSeq(h, 1, Len(h) - 1)
    IN  IF h1 = <<>> THEN [heap |-> h1, ok |-> TRUE]
        ELSE siftup(Put(h1, 0, lastelt), 0, 0, lastelt)

\* Lines 442-444: values = [(key, value) for key, value in row.items()] and
\* heapq.heappush(heap, (row[self.column_max], values)).
TopPush ==
    /\ tn_pc = "push" /\ tn_pos < Len(tn_rows)
    /\ LET row == tn_rows[tn_pos + 1]
           r == heappush(tn_heap, <<DictGet(row, column_max), row>>)
       IN  /\ tn_heap' = r.heap
           /\ tn_pc' = IF ~r.ok THEN "error"
                       ELSE IF Len(r.heap) > tn_n THEN "pop" ELSE "push"
    /\ tn_pos' = tn_pos + 1
    /\ UNCHANGED <<tn_rows, tn_n, tn_i, tn_out>>
    /\ TopFrame

\* Lines 445-446: if len(heap) > self.n: heapq.heappop(heap)
TopPop ==
    /\ tn_pc = "pop"
    /\ LET r == heappop(tn_heap)
       IN  /\ tn_heap' = r.heap
           /\ tn_pc' = IF r.ok THEN "push" ELSE "error"
    /\ UNCHANGED <<tn_rows, tn_n, tn_pos, tn_i, tn_out>>
    /\ TopFrame

\* The for loop of line 442 is over.
TopScanEnd ==
    /\ tn_pc = "push" /\ tn_pos = Len(tn_rows)
    /\ tn_pc' = "yield"
    /\ UNCHANGED <<tn_rows, tn_n, tn_heap, tn_pos, tn_i, tn_out>>
    /\ TopFrame

\* Lines 448-449: for key, values in heap: yield {key: value for key, value in values}
TopYield ==
    /\ tn_pc = "yield" /\ tn_i < Len(tn_heap)
    /\ tn_i' = tn_i + 1
    /\ tn_out' = Append(tn_out, tn_heap[tn_i + 1][2])
    /\ UNCHANGED <<tn_rows, tn_n, tn_heap, tn_pos, tn_pc>>
    /\ TopFrame

TopReturn ==
    /\ tn_pc = "yield" /\ tn_i = Len(tn_heap)
    /\ tn_pc' = "done"
    /\ UNCHANGED <<tn_rows, tn_n, tn_heap, tn_pos, tn_i, tn_out>>
    /\ TopFrame

\* The rows of a group: an integer v and a field w that is an integer or None.
TopRowVals ==
    { <<<<"v", v>>, <<"w", w>>>> : v \in {1, 2}, w \in {1, 2, NoneVal} }

TopInit ==
    /\ tn_rows \in SeqsUpTo(TopRowVals, MaxTopRows)
    /\ tn_n \in 0..MaxTopN
    /\ tn_heap = <<>> /\ tn_pos = 0 /\ tn_pc = "push" /\ tn_i = 0 /\ tn_out = <<>>

TopNext == TopPush \/ TopPop \/ TopScanEnd \/ TopYield \/ TopReturn

\* ------------------------------ Graph.run of a join of two graphs of Maps

\* The names run may be given a factory for; no leaf reads "z".
BindingNames == {"x", "y", "z"}

\* The Maps of a parent graph, from its source leaf on.
ParentPlans == {<<>>, <<"Inverse">>, <<"Reveal">>}

\* keys of g1.join(joiner, g2, keys)
gj_keys == <<"k">>

GraphRunOff ==
    /\ kwargs = {} /\ stored = <<>> /\ objs = <<>> /\ objs0 = <<>>
    /\ g1 = <<>> /\ g2 = <<>> /\ gj_joiner = "InnerJoiner"
    /\ gj_key_a = None /\ gj_key_b = None /\ gj_pc = "off"
    /\ gj_out = <<>> /\ gj_err = "none" /\ gj_calls = <<>> /\ gj_run_no = 0

\* A parent graph whose run generator has not been advanced: the leaf has not
\* invoked its factory, no Map holds a mapper generator, the groupby Join puts
\* over its rows has pulled nothing.
NewParent(name, ops) ==
    [name |-> name, plan |-> ops, invoked |-> FALSE, pos |-> 0,
     gens |-> [s \in 1..Len(ops) |-> NoGen],
     gb |-> [tgtkey |-> None, currkey |-> None, currvalue |-> 0, hasvalue |-> FALSE],
     delivered |-> <<>>]

\* The part of the state the generators of one run work on.
World ==
    [objs |-> objs, calls |-> gj_calls, g1 |-> g1, g2 |-> g2,
     res |-> "ok", err |-> "none", out |-> <<>>]

Raise(w, kind) == [w EXCEPT !.res = "error", !.err = kind]

\* A leaf that calls the factory again for every row it is asked for.
SourcePullReinvoking(w, side) ==
    LET p == w[side]
    IN  IF p.name \notin kwargs
        THEN [w |-> Raise(w, "KeyError"), got |-> "error", ref |-> 0]
        ELSE LET w1 == [w EXCEPT ![side].invoked = TRUE, !.calls[p.name] = @ + 1]
             IN  IF p.pos < Len(stored[p.name])
                 THEN [w |-> [w1 EXCEPT ![side].pos = @ + 1], got |-> "row",
                       ref |-> stored[p.name][p.pos + 1]]
                 ELSE [w |-> w1, got |-> "stop", ref |-> 0]

\* ReadIterFactory.__call__ advanced once (lines 54-56): the first time,
\* kwargs[self.name] is looked up and the factory is invoked; then, and every
\* later time, the iterator it returned gives its next row or is exhausted.
SourcePull(w, side) ==
    LET p == w[side]
    IN  IF ~p.invoked /\ p.name \notin kwargs
        THEN [w |-> Raise(w, "KeyError"), got |-> "error", ref |-> 0]
        ELSE LET w1 == IF p.invoked THEN w
                       ELSE [w EXCEPT ![side].invoked = TRUE, !.calls[p.name] = @ + 1]
             IN  IF p.pos < Len(stored[p.name])
                 THEN [w |-> [w1 EXCEPT ![side].pos = @ + 1], got |-> "row",
                       ref |-> stored[p.name][p.pos + 1]]
                 ELSE [w |-> w1, got |-> "stop", ref |-> 0]

RECURSIVE StagePull(_, _, _)
\* next() on the generator of stage s of a parent: the leaf for s = 0, else
\* Map.__call__ (lines 78-81), which yields the next row of the mapper
\* generator it holds or, when that is finished, pulls upstream rows until a
\* mapper call yields one.
StagePull(w, side, s) ==
    IF s = 0 THEN SourcePull(w, side)
    ELSE LET g == w[side].gens[s]
         IN  IF g.active /\ g.left > 0
             THEN [w |-> [w EXCEPT ![side].gens[s].left = @ - 1], got |-> "row",
                   ref |-> g.ref]
             ELSE LET u == StagePull([w EXCEPT ![side].gens[s] = NoGen], side, s - 1)
                  IN  IF u.got # "row" THEN u
                      ELSE LET kind == w[side].plan[s]
                               row == u.w.objs[u.ref]
                               times == MapperTimes(kind, row)
                               fresh == MapperYieldsNew(kind)
                               objs1 == [u.w.objs EXCEPT ![u.ref] = MapperWrites(kind, row)]
                               objs2 == IF fresh /\ times > 0
                                        THEN Append(objs1, ProjectRow(row)) ELSE objs1
                               ref == IF fresh THEN Len(objs2) ELSE u.ref
                           IN  IF MapperRaises(kind, row)
                               THEN [w |-> Raise(u.w, "KeyError"), got |-> "error", ref |-> 0]
                               ELSE IF times > 0
                               THEN [w |-> [u.w EXCEPT !.objs = objs2,
                                              ![side].gens[s] = [active |-> TRUE, ref |-> ref,
                                                                 left |-> times - 1]],
                                     got |-> "row", ref |-> ref]
                               ELSE StagePull([u.w EXCEPT !.objs = objs1], side, s)

\* What the groupby of a side keeps of the result u of a pull: the row, and
\* its key by the key function of lines 138-139, applied to the row as it is
\* at that moment.
Keyed(u, side) ==
    IF u.got = "row"
    THEN [w |-> [u.w EXCEPT
                    ![side].gb = [@ EXCEPT !.currkey = Some(KeyOf(u.w.objs[u.ref], gj_keys)),
                                           !.currvalue = u.ref,
                                           !.hasvalue = TRUE],
                    ![side].delivered = Append(@, u.w.objs[u.ref])],
          got |-> "row"]
    ELSE [w |-> u.w, got |-> u.got]

\* One pull of the groupby of a side from the run generator of its parent
\* (Graph.run, line 78, hands the rows of the last stage on).
LazyStep(w, side) == Keyed(StagePull(w, side, Len(w[side].plan)), side)

RECURSIVE LazySkip(_, _)
\* The loop of groupby.__next__ over a side goes on after the pull s.
SkipOn(s, side) == IF s.got = "row" THEN LazySkip(s.w, side) ELSE s

\* The loop of groupby.__next__ over a side: pull until the key differs from
\* the key of the group handed out last.
LazySkip(w, side) ==
    IF w[side].gb.currkey # None
       /\ (w[side].gb.tgtkey = None \/ w[side].gb.tgtkey # w[side].gb.currkey)
    THEN [w |-> w, got |-> "row"]
    ELSE SkipOn(LazyStep(w, side), side)

\* groupby.__next__ hands out the group the skip s stopped at.
Targeted(s, side) ==
    IF s.got = "row"
    THEN [w |-> [s.w EXCEPT ![side].gb.tgtkey = s.w[side].gb.currkey],
          key |-> s.w[side].gb.currkey]
    ELSE [w |-> s.w, key |-> None]

\* next(grouped_rows, (None, None)) over a side; a generator that has raised
\* runs no further.
LazyNext(w, side) ==
    IF w.res = "error" THEN [w |-> w, key |-> None]
    ELSE Targeted(LazySkip(w, side), side)

\* The group iterator of a side after the pull s: the row if it is of the group.
InGroup(s, side) ==
    IF s.got = "error" THEN [w |-> s.w, got |-> "error", ref |-> 0]
    ELSE IF s.got = "stop" \/ s.w[side].gb.currkey # s.w[side].gb.tgtkey
    THEN [w |-> s.w, got |-> "stop", ref |-> 0]
    ELSE [w |-> [s.w EXCEPT ![side].gb.hasvalue = FALSE], got |-> "row",
          ref |-> s.w[side].gb.currvalue]

\* next(group) over a side.
LazyGrouperNext(w, side) ==
    InGroup(IF w[side].gb.hasvalue THEN [w |-> w, got |-> "row"] ELSE LazyStep(w, side),
            side)

RECURSIVE LazyGrouperList(_, _)
\* list(group) goes on after next(group) gave s.
ListOn(s, side) ==
    IF s.got # "row" THEN [w |-> s.w, list |-> <<>>]
    ELSE LET r == LazyGrouperList(s.w, side)
         IN  [w |-> r.w, list |-> <<s.ref>> \o r.list]

\* list(group) over a side; the argument [] of lines 153, 159, 165 and 171 is
\* the side "empty".
LazyGrouperList(w, side) ==
    IF side = "empty" THEN [w |-> w, list |-> <<>>]
    ELSE ListOn(LazyGrouperNext(w, side), side)

\* yield of the rows of a list, as they are now.
YieldObjs(w, list) == [w EXCEPT !.out = @ \o [i \in 1..Len(list) |-> w.objs[list[i]]]]

RECURSIVE LazyYield(_, _)
\* for el in rows: yield el, after next(rows) gave s.
YieldOn(s, side) ==
    IF s.got # "row" THEN s.w ELSE LazyYield(YieldObjs(s.w, <<s.ref>>), side)

\* for el in rows: yield el
LazyYield(w, side) ==
    IF side = "empty" \/ w.res = "error" THEN w
    ELSE YieldOn(LazyGrouperNext(w, side), side)

RECURSIVE LazyProduct(_, _, _, _)
\* The body of the outer product loop for the row that next(rows) gave as s.
ProductOn(s, side, list, outer_is_a) ==
    IF s.got # "row" THEN s.w
    ELSE LazyProduct(
            [s.w EXCEPT !.out = @ \o
                [j \in 1..Len(list) |->
                    IF outer_is_a
                    THEN get_ans(s.w.objs[s.ref], s.w.objs[list[j]], gj_keys)
                    ELSE get_ans(s.w.objs[list[j]], s.w.objs[s.ref], gj_keys)]],
            side, list, outer_is_a)

\* for row in rows: for other in list: yield self.get_ans(row_a, row_b, keys),
\* the row of the outer loop being the left one (InnerJoiner, LeftJoiner) or
\* the right one (RightJoiner).
LazyProduct(w, side, list, outer_is_a) ==
    IF side = "empty" \/ w.res = "error" THEN w
    ELSE ProductOn(LazyGrouperNext(w, side), side, list, outer_is_a)

\* InnerJoiner.__call__ after list(rows_b) gave l.
ProductAfter(l, side, outer_is_a) == LazyProduct(l.w, side, l.list, outer_is_a)

\* LeftJoiner.__call__ and RightJoiner.__call__ after the list of the other
\* side gave l.
YieldOrProduct(l, side, outer_is_a) ==
    IF Len(l.list) = 0 THEN LazyYield(l.w, side)
    ELSE LazyProduct(l.w, side, l.list, outer_is_a)

\* OuterJoiner.__call__ after both lists.
OuterEmit(la, lb) ==
    IF lb.w.res = "error" THEN lb.w
    ELSE IF Len(lb.list) = 0 THEN YieldObjs(lb.w, la.list)
    ELSE IF Len(la.list) = 0 THEN YieldObjs(lb.w, lb.list)
    ELSE [lb.w EXCEPT !.out = @ \o
            ProductAB([i \in 1..Len(la.list) |-> lb.w.objs[la.list[i]]],
                      [j \in 1..Len(lb.list) |-> lb.w.objs[lb.list[j]]],
                      gj_keys)]

\* OuterJoiner.__call__ after list(rows_a) gave la.
OuterAfter(la, b) ==
    OuterEmit(la, IF la.w.res = "error" THEN [w |-> la.w, list |-> <<>>]
                  ELSE LazyGrouperList(la.w, b))

\* self.joiner(self.keys, rows_a, rows_b) consumed to its end, each argument
\* a group of a side or [].
LazyJoinerCall(kind, w, a, b) ==
    CASE kind = "InnerJoiner" -> ProductAfter(LazyGrouperList(w, b), a, TRUE)
      [] kind = "OuterJoiner" -> OuterAfter(LazyGrouperList(w, a), b)
      [] kind = "LeftJoiner"  -> YieldOrProduct(LazyGrouperList(w, b), a, TRUE)
      [] kind = "RightJoiner" -> YieldOrProduct(LazyGrouperList(w, a), b, FALSE)

\* The two keys after next(grouped_rows_a, ...) gave na.
Both(ka, nb) == [w |-> nb.w, key_a |-> ka, key_b |-> nb.key]

ThenB(na) == Both(na.key, LazyNext(na.w, "g2"))

\* (key_a, group_a) = next(grouped_rows_a, (None, None)) and then
\* (key_b, group_b) = next(grouped_rows_b, (None, None))
NextBoth(w) == ThenB(LazyNext(w, "g1"))

\* The generators of the run have advanced to the world r.w: the run fails
\* with the error a generator raised, or Join.__call__ stands at pc with the
\* keys of r.
GJCommit(r, pc) ==
    /\ objs' = r.w.objs /\ gj_calls' = r.w.calls /\ g1' = r.w.g1 /\ g2' = r.w.g2
    /\ gj_out' = gj_out \o r.w.out
    /\ IF r.w.res = "error"
       THEN gj_pc' = "error" /\ gj_err' = r.w.err /\ UNCHANGED <<gj_key_a, gj_key_b>>
       ELSE gj_pc' = pc /\ gj_key_a' = r.key_a /\ gj_key_b' = r.key_b /\ UNCHANGED gj_err
    /\ UNCHANGED <<kwargs, stored, objs0, gj_joiner, gj_run_no>>
    /\ GraphRunFrame

\* Graph.run(**kwargs) is called (graph.py line 76): a generator function, so
\* the call returns a generator and runs none of its body.
GraphRunCall ==
    /\ gj_pc = "built"
    /\ gj_pc' = "called"
    /\ UNCHANGED <<kwargs, stored, objs, objs0, g1, g2, gj_joiner, gj_key_a, gj_key_b,
                   gj_out, gj_err, gj_calls, gj_run_no>>
    /\ GraphRunFrame

\* The consumer asks for the first row: Graph.run (line 78) calls
\* GraphsJoiner.__call__ (line 89), which creates the generators of both
\* parents and hands them to Join.__call__; lines 138-142 of operations.py put
\* a groupby over each and take the first group of each.
GJStart ==
    /\ gj_pc = "called"
    /\ GJCommit(NextBoth(World), "merge")

\* The condition of the while loop of line 144.
GJMerging == gj_key_a # None /\ gj_key_b # None

\* Lines 145-149.
GJEqual ==
    /\ gj_pc = "merge" /\ GJMerging
    /\ gj_key_a = gj_key_b
    /\ GJCommit(NextBoth(LazyJoinerCall(gj_joiner, World, "g1", "g2")), "merge")

\* key_a is the key of the next left group n, key_b stays.
NewKeyA(n) == [w |-> n.w, key_a |-> n.key, key_b |-> gj_key_b]

\* key_b is the key of the next right group n, key_a stays.
NewKeyB(n) == [w |-> n.w, key_a |-> gj_key_a, key_b |-> n.key]

\* Lines 152-155 and 164-167: the left group alone.
GJLeftAlone ==
    NewKeyA(LazyNext(IF AdmitsLeft(gj_joiner)
                     THEN LazyJoinerCall(gj_joiner, World, "g1", "empty")
                     ELSE World, "g1"))

\* Lines 158-161 and 170-173: the right group alone.
GJRightAlone ==
    NewKeyB(LazyNext(IF AdmitsRight(gj_joiner)
                     THEN LazyJoinerCall(gj_joiner, World, "empty", "g2")
                     ELSE World, "g2"))

\* The state as it stands, no generator advanced.
Standing == [w |-> World, key_a |-> gj_key_a, key_b |-> gj_key_b]

\* Lines 151-155: key_a < key_b.
GJLess ==
    /\ gj_pc = "merge" /\ GJMerging
    /\ gj_key_a # gj_key_b /\ ListLess(gj_key_a[1], gj_key_b[1])
    /\ GJCommit(GJLeftAlone, "merge")

\* Lines 157-161: the else branch.
GJGreater ==
    /\ gj_pc = "merge" /\ GJMerging
    /\ gj_key_a # gj_key_b /\ ~ListLess(gj_key_a[1], gj_key_b[1])
    /\ GJCommit(GJRightAlone, "merge")

\* Line 144 fails: on to the drain of the left side.
GJMergeEnd ==
    /\ gj_pc = "merge" /\ ~GJMerging
    /\ GJCommit(Standing, "drain_a")

\* Lines 163-167.
GJDrainA ==
    /\ gj_pc = "drain_a" /\ gj_key_a # None
    /\ GJCommit(GJLeftAlone, "drain_a")

GJDrainAEnd ==
    /\ gj_pc = "drain_a" /\ gj_key_a = None
    /\ GJCommit(Standing, "drain_b")

\* Lines 169-173.
GJDrainB ==
    /\ gj_pc = "drain_b" /\ gj_key_b # None
    /\ GJCommit(GJRightAlone, "drain_b")

\* The generator of Join.__call__ returns, and with it Graph.run.
GJDrainBEnd ==
    /\ gj_pc = "drain_b" /\ gj_key_b = None
    /\ GJCommit(Standing, "done")

\* The run is over; run(**kwargs) is called again on the same graph with the
\* same bindings: new generators over the same stored row objects.
GraphRunAgain ==
    /\ gj_pc \in {"done", "error"} /\ gj_run_no < MaxGraphRuns
    /\ gj_run_no' = gj_run_no + 1
    /\ gj_pc' = "called"
    /\ g1' = NewParent(g1.name, g1.plan) /\ g2' = NewParent(g2.name, g2.plan)
    /\ gj_key_a' = None /\ gj_key_b' = None
    /\ gj_out' = <<>> /\ gj_err' = "none"
    /\ gj_calls' = [n \in BindingNames |-> 0]
    /\ UNCHANGED <<kwargs, stored, objs, objs0, gj_joiner>>
    /\ GraphRunFrame

\* The rows a caller stores under a name: a key k, a value v and a count c.
StoredRowVals ==
    { <<<<"k", 1>>, <<"v", 1>>, <<"c", 2>>>>,
      <<<<"k", 2>>, <<"v", 2>>, <<"c", 1>>>>,
      <<<<"k", 2>>, <<"v", 3>>, <<"c", 0>>>> }

\* The collections a caller stores: sorted by the join key.
StoredSeqs(S, n) ==
    {s \in SeqsUpTo(S, n) :
        \A i \in 1..Len(s) - 1 : DictGet(s[i], "k") <= DictGet(s[i + 1], "k")}

GraphRunInit ==
    /\ kwargs \in SUBSET BindingNames
    /\ \E xs \in StoredSeqs(StoredRowVals, MaxStoredRows),
          ys \in StoredSeqs({<<<<"k", 2>>, <<"v", 5>>, <<"c", 1>>>>}, 1) :
          /\ objs0 = xs \o ys
          /\ stored = [n \in BindingNames |->
                          CASE n = "x" -> [i \in 1..Len(xs) |-> i]
                            [] n = "y" -> [i \in 1..Len(ys) |-> Len(xs) + i]
                            [] OTHER   -> <<>>]
    /\ objs = objs0
    /\ \E n1 \in SourceNames, n2 \in SourceNames, p1 \in ParentPlans, p2 \in ParentPlans :
          g1 = NewParent(n1, p1) /\ g2 = NewParent(n2, p2)
    /\ gj_joiner \in JoinerKinds
    /\ gj_key_a = None /\ gj_key_b = None
    /\ gj_pc = "built" /\ gj_out = <<>> /\ gj_err = "none"
    /\ gj_calls = [n \in BindingNames |-> 0]
    /\ gj_run_no = 1

GraphRunNext ==
    \/ GraphRunCall \/ GJStart \/ GJEqual \/ GJLess \/ GJGreater \/ GJMergeEnd
    \/ GJDrainA \/ GJDrainAEnd \/ GJDrainB \/ GJDrainBEnd \/ GraphRunAgain

\* ----------------------------------------------------------- specifications

InitJoin ==
    /\ JoinInit /\ MergeOff /\ ReduceOff /\ RunOff /\ BuildOff /\ SortOff
    /\ GraphRunOff /\ SplitOff /\ TopOff

InitJoinAny ==
    /\ JoinAnyInit /\ MergeOff /\ ReduceOff /\ RunOff /\ BuildOff /\ SortOff
    /\ GraphRunOff /\ SplitOff /\ TopOff

InitMerge ==
    /\ MergeInit /\ JoinOff /\ ReduceOff /\ RunOff /\ BuildOff /\ SortOff
    /\ GraphRunOff /\ SplitOff /\ TopOff

InitReduce ==
    /\ ReduceInit /\ JoinOff /\ MergeOff /\ RunOff /\ BuildOff /\ SortOff
    /\ GraphRunOff /\ SplitOff /\ TopOff

InitRun ==
    /\ RunInit /\ JoinOff /\ MergeOff /\ ReduceOff /\ BuildOff /\ SortOff
    /\ GraphRunOff /\ SplitOff /\ TopOff

InitBuild ==
    /\ BuildInit /\ JoinOff /\ MergeOff /\ ReduceOff /\ RunOff /\ SortOff
    /\ GraphRunOff /\ SplitOff /\ TopOff

InitSort ==
    /\ SortInit /\ JoinOff /\ MergeOff /\ ReduceOff /\ RunOff /\ BuildOff
    /\ GraphRunOff /\ SplitOff /\ TopOff

InitGraphRun ==
    /\ GraphRunInit /\ JoinOff /\ MergeOff /\ ReduceOff /\ RunOff /\ BuildOff
    /\ SortOff /\ SplitOff /\ TopOff

InitSplit ==
    /\ SplitInit /\ JoinOff /\ MergeOff /\ ReduceOff /\ RunOff /\ BuildOff
    /\ SortOff /\ GraphRunOff /\ TopOff

InitTop ==
    /\ TopInit /\ JoinOff /\ MergeOff /\ ReduceOff /\ RunOff /\ BuildOff
    /\ SortOff /\ GraphRunOff /\ SplitOff

\* Join.__call__ on key-sorted inputs, under each joiner.
SpecJoin == InitJoin /\ [][JoinNext]_vars

\* Join.__call__ on any inputs whose rows carry the key field.
SpecJoinAny == InitJoinAny /\ [][JoinAnyNext]_vars

\* Joiner.get_ans on a pair of rows.
SpecMerge == InitMerge /\ [][MergeNext]_vars

\* Reduce.__call__ on any input, under FirstReducer and Count.
SpecReduce == InitReduce /\ [][ReduceNext]_vars

\* g.run(**bindings) consumed to its end, twice, for a graph of Maps.
SpecRun == InitRun /\ [][RunNext]_vars

\* Builder calls on Graph objects.
SpecBuild == InitBuild /\ [][BuildNext]_vars

\* The external sort of any input.
SpecSort == InitSort /\ [][SortNext]_vars

\* run(**kwargs) of a join of two graphs of Maps, consumed to its end.
SpecGraphRun == InitGraphRun /\ [][GraphRunNext]_vars

\* Split.__call__ on a row, under each separator.
SpecSplit == InitSplit /\ [][SplitNext]_vars

\* TopN.__call__ on a group.
SpecTop == InitTop /\ [][TopNext]_vars

Init ==
    \/ InitJoin \/ InitJoinAny \/ InitMerge \/ InitReduce \/ InitRun \/ InitBuild
    \/ InitSort \/ InitGraphRun \/ InitSplit \/ InitTop

Next ==
    \/ JoinAnyNext \/ MergeNext \/ ReduceNext \/ RunNext \/ BuildNext \/ SortNext
    \/ GraphRunNext \/ SplitNext \/ TopNext

Spec == Init /\ [][Next]_vars

\* ------------------------------------------------------------------- claims

\* The rows of a stream as mappings, the insertion order of their fields put
\* aside (Python's dict equality).
Maps(s) == [i \in 1..Len(s) |-> AsMap(s[i])]

IsPrefix(p, s) == Len(p) <= Len(s) /\ \A i \in 1..Len(p) : p[i] = s[i]

\* How many rows of the stream s equal the row r.
CountIn(s, r) == Cardinality({i \in 1..Len(s) : AsMap(s[i]) = AsMap(r)})

RunEnded == run_pc \in {"done", "error"}

\* C1. Re-run determinism: two sequential, fully consumed runs of a graph over
\* factories that iterate the same stored rows deliver equal sequences of rows
\* and end the same way.
RerunDeterminism ==
    (run_no = 2 /\ RunEnded) =>
        (Maps(out[1]) = Maps(out[2]) /\ status[1] = status[2])

\* C2. Builder immutability: every builder call returns a new Graph object,
\* and every Graph object still holds the plan it held when its builder
\* returned it, which is all that running it executes.
BuilderImmutability ==
    /\ Len(recorded) = Len(graphs)
    /\ \A g \in 1..Len(graphs) : PlanOfGraph(nodes, graphs, g) = recorded[g]
    /\ ret = Len(graphs)

\* A Graph object has been the receiver of a map and of a join.
BuilderWitness ==
    /\ Len(graphs) >= 3
    /\ \E n \in 1..Len(nodes) :
          nodes[n].cls = "AddOperation" /\ nodes[n].second = graphs[1].op
    /\ \E n \in 1..Len(nodes) : nodes[n].cls = "GraphsJoiner" /\ nodes[n].g1 = 1

\* The pairs of a left and a right row with equal key values.
MatchedPairs ==
    {p \in (1..Len(rows_a)) \X (1..Len(rows_b)) :
        KeyOf(rows_a[p[1]], join_keys) = KeyOf(rows_b[p[2]], join_keys)}

\* The left rows whose key value does not occur on the right, and the mirror.
UnmatchedA == {i \in 1..Len(rows_a) : \A j \in 1..Len(rows_b) : <<i, j>> \notin MatchedPairs}

UnmatchedB == {j \in 1..Len(rows_b) : \A i \in 1..Len(rows_a) : <<i, j>> \notin MatchedPairs}

\* The stream holds the merged row of every matched pair once and of no other pair.
HoldsProduct(s) ==
    \A i \in 1..Len(rows_a), j \in 1..Len(rows_b) :
        CountIn(s, get_ans(rows_a[i], rows_b[j], join_keys))
            = IF <<i, j>> \in MatchedPairs THEN 1 ELSE 0

\* The stream holds every row of A with an index in I once, unchanged, and no other row of A.
HoldsRowsOf(s, A, I) ==
    \A i \in 1..Len(A) : CountIn(s, A[i]) = IF i \in I THEN 1 ELSE 0

\* C3. Inner join is the per-key Cartesian product: one merged row for every
\* pair of equal key value, nothing for a key value present on one side only.
InnerJoinIsProduct ==
    (join_pc = "done" /\ joiner = "InnerJoiner") =>
        /\ Len(join_out) = Cardinality(MatchedPairs)
        /\ HoldsProduct(join_out)

\* An inner join of a two-by-two group with a key value on the right only.
InnerJoinWitness ==
    /\ join_pc = "done" /\ joiner = "InnerJoiner" /\ join_keys = <<"k">>
    /\ Cardinality(MatchedPairs) >= 4
    /\ UnmatchedB # {}

\* C4. Outer join decomposition: the rows emitted are, as a multiset, the
\* inner-join rows, the left rows without a match and the right rows without
\* a match, the unmatched rows unchanged.
OuterJoinDecomposition ==
    (join_pc = "done" /\ joiner = "OuterJoiner") =>
        /\ Len(join_out) = Cardinality(MatchedPairs) + Cardinality(UnmatchedA)
                               + Cardinality(UnmatchedB)
        /\ HoldsProduct(join_out)
        /\ HoldsRowsOf(join_out, rows_a, UnmatchedA)
        /\ HoldsRowsOf(join_out, rows_b, UnmatchedB)

\* An outer join with a matched pair and an unmatched row on each side.
OuterJoinWitness ==
    /\ join_pc = "done" /\ joiner = "OuterJoiner"
    /\ MatchedPairs # {} /\ UnmatchedA # {} /\ UnmatchedB # {}

\* The rows yielded so far by the branches in tags.
OutOf(tags) ==
    LET idx == {i \in 1..Len(join_out) : join_phase[i] \in tags}
    IN  {join_out[i] : i \in idx}

\* C5. One-sided joins: LeftJoiner emits the inner-join rows and every left
\* row without a match, unchanged, and no right row without a match, both
\* in the merge loop and in the drain; RightJoiner is the mirror image;
\* InnerJoiner emits only in the equal branch.
OneSidedJoins ==
    /\ joiner = "LeftJoiner" =>
          /\ OutOf({"greater", "drain_b"}) = {}
          /\ OutOf({"less", "drain_a"}) \subseteq {rows_a[i] : i \in UnmatchedA}
          /\ join_pc = "done" =>
                /\ Len(join_out) = Cardinality(MatchedPairs) + Cardinality(UnmatchedA)
                /\ HoldsProduct(join_out)
                /\ HoldsRowsOf(join_out, rows_a, UnmatchedA)
                /\ HoldsRowsOf(join_out, rows_b, {})
    /\ joiner = "RightJoiner" =>
          /\ OutOf({"less", "drain_a"}) = {}
          /\ OutOf({"greater", "drain_b"}) \subseteq {rows_b[j] : j \in UnmatchedB}
          /\ join_pc = "done" =>
                /\ Len(join_out) = Cardinality(MatchedPairs) + Cardinality(UnmatchedB)
                /\ HoldsProduct(join_out)
                /\ HoldsRowsOf(join_out, rows_b, UnmatchedB)
                /\ HoldsRowsOf(join_out, rows_a, {})
    /\ joiner = "InnerJoiner" =>
          OutOf({"less", "greater", "drain_a", "drain_b"}) = {}

\* A left join that emitted an unmatched left row in the merge loop and
\* another in the drain, and skipped an unmatched right row.
OneSidedWitness ==
    /\ join_pc = "done" /\ joiner = "LeftJoiner"
    /\ OutOf({"less"}) # {} /\ OutOf({"drain_a"}) # {}
    /\ UnmatchedB # {}

\* The non-key field names of a row.
NonKey(row, keys) == DictNames(row) \ Range(keys)

\* C6. Column collision: in the merged row every key field stands once under
\* its own name with the pair's key value, and every non-key field f of both
\* rows stands as f + suffix_a with the left value and as f + suffix_b with
\* the right value, while no field is named f.
ColumnCollision ==
    ga_pc = "return" =>
        /\ \A i \in 1..Len(ga_keys) :
              /\ Cardinality({n \in 1..Len(ans) : ans[n][1] = ga_keys[i]}) = 1
              /\ DictGet(ans, ga_keys[i]) = DictGet(ga_row_a, ga_keys[i])
        /\ \A f \in NonKey(ga_row_a, ga_keys) \cap NonKey(ga_row_b, ga_keys) :
              /\ DictHas(ans, f \o suffix_a)
              /\ DictGet(ans, f \o suffix_a) = DictGet(ga_row_a, f)
              /\ DictHas(ans, f \o suffix_b)
              /\ DictGet(ans, f \o suffix_b) = DictGet(ga_row_b, f)
              /\ ~DictHas(ans, f)

\* C7. No field is lost in a merge: every non-key field of one row only stands
\* in the merged row under its own name with its own value, and the merged
\* row has |K| + |non-key fields of a| + |non-key fields of b| fields.
NoFieldLost ==
    ga_pc = "return" =>
        /\ \A f \in NonKey(ga_row_a, ga_keys) \ NonKey(ga_row_b, ga_keys) :
              DictHas(ans, f) /\ DictGet(ans, f) = DictGet(ga_row_a, f)
        /\ \A f \in NonKey(ga_row_b, ga_keys) \ NonKey(ga_row_a, ga_keys) :
              DictHas(ans, f) /\ DictGet(ans, f) = DictGet(ga_row_b, f)
        /\ Len(ans) = Len(ga_keys) + Cardinality(NonKey(ga_row_a, ga_keys))
                          + Cardinality(NonKey(ga_row_b, ga_keys))

RECURSIVE RunsOf(_, _)
\* The maximal runs of adjacent rows with equal key value, in stream order.
RunsOf(rows, keys) ==
    IF rows = <<>> THEN <<>>
    ELSE LET rest == RunsOf(Tail(rows), keys)
         IN  IF rest # <<>> /\ KeyOf(Head(rest)[1], keys) = KeyOf(Head(rows), keys)
             THEN <<<<Head(rows)>> \o Head(rest)>> \o Tail(rest)
             ELSE <<<<Head(rows)>>>> \o rest

RedRuns == RunsOf(red_rows, red_keys)

\* C8. Reduce locality: the reducer is invoked once per maximal equal-key run,
\* in stream order, and the group iterator of the i-th invocation yields rows
\* of the i-th run only, from its start and in order, however much of it the
\* reducer reads: FirstReducer emits the first row of every run and nothing
\* else, Count reads every run whole.
ReduceLocality ==
    /\ Len(red_calls) <= Len(RedRuns)
    /\ \A c \in 1..Len(red_calls) : IsPrefix(red_calls[c], RedRuns[c])
    /\ red_pc = "done" =>
          /\ Len(red_calls) = Len(RedRuns)
          /\ reducer = "FirstReducer" =>
                red_out = [c \in 1..Len(RedRuns) |-> RedRuns[c][1]]
          /\ reducer = "Count" =>
                /\ red_calls = RedRuns
                /\ Maps(red_out) = Maps([c \in 1..Len(RedRuns) |->
                      DictSet(KeyItems(RedRuns[c][1], red_keys), count_column,
                              Len(RedRuns[c]))])

\* FirstReducer left rows of a run unread and a later run followed.
ReduceWitness ==
    /\ red_pc = "done" /\ reducer = "FirstReducer" /\ red_keys = <<"k">>
    /\ Len(RedRuns) >= 2
    /\ Len(RedRuns[1]) >= 2

\* What the one Map of the plan is to yield for the stored rows.
MapExpected == Flatten([i \in 1..Len(rows0) |-> MapperRows(plan[1], rows0[i])])

\* C9. Map output is the in-order concatenation of the mapper's outputs: a
\* graph of one Map over the stored rows r1..rn delivers the rows of m(r1),
\* then m(r2), ..., then m(rn): at every moment a prefix of them, at the end
\* all of them.
MapConcatenation ==
    (run_no = 1 /\ Len(plan) = 1) =>
        /\ IsPrefix(Maps(out[1]), Maps(MapExpected))
        /\ run_pc # "error"
        /\ run_pc = "done" => Len(out[1]) = Len(MapExpected)

\* A Map whose mapper yielded two rows for one input row, none for another.
MapWitness ==
    /\ run_no = 1 /\ run_pc = "done" /\ plan = <<"Reveal">>
    /\ Len(rows0) = 2 /\ Len(out[1]) >= 2
    /\ \E i \in 1..Len(rows0) : DictGet(rows0[i], column_to_reveal) = 0

\* C10. Stable sort: the output is a permutation of the input (every input
\* row carries a payload of its own), its key values do not decrease, and
\* rows of equal key value keep their input order, whatever the buffer budget.
StableSorted ==
    srt_pc = "done" =>
        /\ Len(srt_out) = Len(srt_rows)
        /\ Range(srt_out) = Range(srt_rows)
        /\ \A i \in 1..Len(srt_out) - 1 :
              ~ListLess(KeyOf(srt_out[i + 1], srt_keys), KeyOf(srt_out[i], srt_keys))
        /\ \A i, j \in 1..Len(srt_out) :
              (i < j /\ KeyOf(srt_out[i], srt_keys) = KeyOf(srt_out[j], srt_keys))
                  => DictGet(srt_out[i], "v") < DictGet(srt_out[j], "v")

\* A sort that spilled: the budget was smaller than the input, and two runs
\* held rows of the same key value.
SortWitness ==
    /\ srt_pc = "done" /\ buffer_budget < Len(srt_rows) /\ Len(runs) >= 2
    /\ \E i \in 1..Len(runs[1]), j \in 1..Len(runs[2]) :
          KeyOf(runs[1][i], srt_keys) = KeyOf(runs[2][j], srt_keys)

\* C11. Missing source binding: once the consumer has asked for a row of a run
\* whose bindings have no entry for the name of a source leaf, the run has
\* failed, and the error the consumer received is a ConfigError.
MissingBindingIsConfigError ==
    (gj_pc \notin {"built", "called"} /\ (g1.name \notin kwargs \/ g2.name \notin kwargs))
        => (gj_pc = "error" /\ gj_err = "ConfigError")

RECURSIVE SplitOn(_, _, _)
\* The tokens of s split on the character sep, after the token cur being read.
SplitOn(s, sep, cur) ==
    IF s = <<>> THEN <<cur>>
    ELSE IF Head(s) = sep THEN <<cur>> \o SplitOn(Tail(s), sep, <<>>)
    ELSE SplitOn(Tail(s), sep, Append(cur, Head(s)))

\* The tokens Split is to emit: on the separator, on whitespace when it is None.
SplitTokens ==
    IF separator = None THEN str_split(DictGet(sp_row, split_column))
    ELSE SplitOn(DictGet(sp_row, split_column), separator[1], <<>>)

\* C12. Split honours its separator: Split(col, sep) emits one row per token of
\* row[col] split on sep (on whitespace when sep is None), each a copy of the
\* row with col replaced by the token, in token order.
SplitHonoursSeparator ==
    sp_pc = "done" =>
        sp_out = [i \in 1..Len(SplitTokens) |-> DictSet(sp_row, split_column, SplitTokens[i])]

\* What C13 says TopN has emitted once it has returned.
TopSelected ==
    /\ Len(tn_out) = (IF tn_n < Len(tn_rows) THEN tn_n ELSE Len(tn_rows))
    /\ \A i \in 1..Len(tn_out) : CountIn(tn_out, tn_out[i]) <= CountIn(tn_rows, tn_out[i])
    /\ \A i \in 1..Len(tn_out), j \in 1..Len(tn_rows) :
          CountIn(tn_out, tn_rows[j]) < CountIn(tn_rows, tn_rows[j])
              => DictGet(tn_out[i], column_max) >= DictGet(tn_rows[j], column_max)

\* C13 as stated. TopN selects the n largest: for any group whose values of col
\* are mutually comparable and any n >= 0, TopN(col, n) returns having emitted
\* min(n, |group|) rows, each a row of the group (with multiplicity), none with
\* a smaller value of col than a row it did not emit.
TopNSelects ==
    /\ tn_pc # "error"
    /\ tn_pc = "done" => TopSelected

\* The rows of the group that tie on col have mutually comparable contents.
TiesComparable ==
    \A i, j \in 1..Len(tn_rows) :
        DictGet(tn_rows[i], column_max) = DictGet(tn_rows[j], column_max)
            => ItemsCmp(tn_rows[i], tn_rows[j]) # "error"

\* C13 as amended: the same, for the groups whose rows, where they tie on col,
\* also have mutually comparable contents.
TopNSelectsComparable ==
    TiesComparable =>
        /\ tn_pc # "error"
        /\ tn_pc = "done" => TopSelected

\* TopN returned after it dropped a row of a group with a tie on col.
TopNWitness ==
    /\ tn_pc = "done" /\ TiesComparable
    /\ Len(tn_rows) = 3 /\ tn_n = 2
    /\ \E i, j \in 1..3 : /\ i # j
                          /\ DictGet(tn_rows[i], column_max) = DictGet(tn_rows[j], column_max)
                          /\ tn_rows[i] # tn_rows[j]
    /\ \E i, j \in 1..3 : DictGet(tn_rows[i], column_max) < DictGet(tn_rows[j], column_max)

\* What Reveal is to emit for the stored rows: each row, without its count
\* column, as many times as the count says.
RevealExpected ==
    Flatten([i \in 1..Len(rows0) |->
        [j \in 1..DictGet(rows0[i], column_to_reveal) |->
            SelectSeq(rows0[i], LAMBDA it : it[1] # column_to_reveal)]])

\* C14. Reveal undoes aggregation: for a row whose field col holds c >= 0,
\* Reveal(col) emits exactly c rows, each the row without col and its other
\* fields unchanged: a graph of one Map of Reveal delivers just these rows.
RevealUndoesAggregation ==
    (run_no = 1 /\ plan = <<"Reveal">>) =>
        /\ IsPrefix(out[1], RevealExpected)
        /\ run_pc # "error"
        /\ run_pc = "done" => out[1] = RevealExpected

\* Reveal was given a row of count 2 and a row of count 1.
RevealWitness ==
    /\ run_no = 1 /\ run_pc = "done" /\ plan = <<"Reveal">>
    /\ \E i, j \in 1..Len(rows0) : /\ DictGet(rows0[i], column_to_reveal) = 2
                                   /\ DictGet(rows0[j], column_to_reveal) = 1
    /\ Len(out[1]) = 3

\* C15. Exclusive row ownership: within a run no row object is delivered to
\* the consumer twice, and every row delivered is still what it was when it
\* was delivered.
ExclusiveOwnership ==
    run_no \in {1, 2} =>
        /\ \A i, j \in 1..Len(out_refs[run_no]) :
              i # j => out_refs[run_no][i] # out_refs[run_no][j]
        /\ \A i \in 1..Len(out[run_no]) : heap[out_refs[run_no][i]] = out[run_no][i]

\* C16. No read-ahead: when the consumer receives its k-th row, the source has
\* yielded no row beyond the one the k-th row descends from; no row is pulled
\* before the first request, and none between a delivery and the next request.
MapNoReadAhead ==
    run_no \in {1, 2} =>
        /\ \A k \in 1..Len(out_pulls[run_no]) :
              out_pulls[run_no][k] <= born[out_refs[run_no][k]]
        /\ run_pc = "idle" =>
              src_pos = (IF out_pulls[run_no] = <<>> THEN 0
                         ELSE out_pulls[run_no][Len(out_pulls[run_no])])

\* The consumer holds two rows that two Maps made of the first stored row, and
\* the source has a row left.
MapNoReadAheadWitness ==
    /\ run_no = 1 /\ run_pc = "idle" /\ Len(plan) = 2
    /\ Len(out[1]) = 2 /\ src_pos = 1 /\ Len(data) = 2

\* C17. Join never crashes: on any two finite inputs whose rows carry the key
\* fields, sorted or not, whatever the types of the key values, Join.__call__
\* raises no error.
JoinNeverCrashes == join_pc # "error"

\* How many source leaves of the plan read the name n.
LeavesNaming(n) == (IF g1.name = n THEN 1 ELSE 0) + (IF g2.name = n THEN 1 ELSE 0)

\* C18. Lazy and per run: until the consumer asks for the first row no
\* factory is invoked and no row is pulled; in each run, a factory is never
\* invoked more often than there are leaves that name it, and once the first
\* request has got as far as the merge loop it has been invoked exactly once
\* per such leaf; the factory of a name no leaf reads is never invoked.
LazyPerRun ==
    /\ gj_pc \in {"built", "called"} =>
          /\ \A n \in BindingNames : gj_calls[n] = 0
          /\ g1.pos = 0 /\ g2.pos = 0
          /\ g1.delivered = <<>> /\ g2.delivered = <<>>
    /\ \A n \in BindingNames : gj_calls[n] <= LeavesNaming(n)
    /\ gj_pc \in {"merge", "drain_a", "drain_b", "done"} =>
          \A n \in BindingNames : gj_calls[n] = LeavesNaming(n)

\* A second run of a join whose parents read the same name, with a binding
\* that no leaf reads, came to its end.
LazyPerRunWitness ==
    /\ gj_pc = "done" /\ gj_run_no = 2
    /\ g1.name = "x" /\ g2.name = "x" /\ kwargs = BindingNames
    /\ gj_calls["x"] = 2
    /\ Len(gj_out) >= 1

RECURSIVE AloneFrom(_, _)
\* The run of one parent graph alone, consumed to its end from the world w.
AloneFrom(w, side) ==
    LET u == StagePull(w, side, Len(w[side].plan))
    IN  IF u.got = "row"
        THEN LET rest == AloneFrom(u.w, side)
             IN  [rows |-> <<u.w.objs[u.ref]>> \o rest.rows, err |-> rest.err]
        ELSE [rows |-> <<>>, err |-> u.w.err]

\* The run of one parent graph alone, with the same bindings, over the rows as
\* the caller stored them.
Alone(side) ==
    AloneFrom([objs |-> objs0, calls |-> [n \in BindingNames |-> 0],
               g1 |-> NewParent(g1.name, g1.plan), g2 |-> NewParent(g2.name, g2.plan),
               res |-> "ok", err |-> "none", out |-> <<>>], side)

\* C19. Join branches are isolated: in a first run, the rows each parent has
\* delivered to the join are the first rows that parent yields when run alone
\* with the same bindings, all of them once the join has returned, and the
\* join run fails only where the run of a parent alone fails.
BranchIsolation ==
    (gj_run_no = 1 /\ gj_pc \notin {"built", "called"}) =>
        /\ IsPrefix(g1.delivered, Alone("g1").rows)
        /\ IsPrefix(g2.delivered, Alone("g2").rows)
        /\ gj_pc = "done" => /\ g1.delivered = Alone("g1").rows
                             /\ g2.delivered = Alone("g2").rows
        /\ gj_pc = "error" => (Alone("g1").err # "none" \/ Alone("g2").err # "none")

====
